---- MODULE Spec2Model ----
(***************************************************************************)
(* Policy core of the legal-intake AI services: the LLM router             *)
(* (services/llm_router/router.py), the PHI redactor                       *)
(* (utils/phi_redaction.py), the token-usage ledger (core/cost_monitor.py, *)
(* core/database.py) and the document pipeline (main.py and the service    *)
(* classes) that ties them together.                                       *)
(*                                                                         *)
(* Numbers.  Complexity scores are counted in hundredths (0.8 is 80): the  *)
(* sums the router forms from its increments agree in binary floating      *)
(* point and in exact arithmetic on every comparison the code makes.       *)
(* Prices are the entries of MODEL_ROUTING_CONFIG in units of 1e-5 dollar  *)
(* per 1000 tokens, which is 1e-8 dollar per token.                        *)
(***************************************************************************)
EXTENDS Integers, Sequences, FiniteSets, TLC

VARIABLES
    rreq,        \* router: the request handed to route_request, or None
    decision,    \* router: the RoutingDecision returned for rreq, or None
    routed,      \* router: an earlier call of a probe request and its decision
    text,        \* redactor: the text handed to the redactor
    segments,    \* redactor: the number of segments text is made of
    redaction,   \* redactor: the RedactionResult of redact_text(text), or None
    redetected,  \* redactor: detect_phi on the redacted text, or None
    compliance,  \* redactor: the report of check_compliance(text), or None
    failure,     \* redactor: the exception a call of the redactor raised, or None
    ledger,      \* ledger: the rows of token_usage_log, in the order committed
    today,       \* ledger: the current day (datetime.utcnow().date())
    last,        \* ledger: the last operation called on it and what it gave
    external,    \* pipeline: the calls of execute_routed_request, in order
    response,    \* pipeline: what the handler gave its caller, or None
    logged,      \* pipeline: the lines the handlers wrote to the log, in order
    inflight     \* ledger: the calls of log_token_usage in progress, by caller

routerVars == <<rreq, decision, routed>>
redactorVars == <<text, segments, redaction, redetected, compliance, failure>>
ledgerVars == <<ledger, today, last>>
pipelineVars == <<external, response, logged>>
callVars == <<inflight>>
vars == <<rreq, decision, routed, text, segments, redaction, redetected, compliance, failure,
          ledger, today, last,
          external, response, logged, inflight>>

\* An optional value is None or Some(x), read back by The.
None == <<>>
Some(x) == <<x>>
The(o) == o[1]

(***************************************************************************)
(* Router: services/llm_router/router.py                                   *)
(***************************************************************************)

GPT_4O_MINI == "gpt_4o_mini"
CLAUDE_3_5_SONNET == "claude_3_5_sonnet"

\* The task types analyze_request_complexity knows, and one it does not.
KnownTaskTypes ==
    {"document_classification", "medical_summarization", "simple_extraction",
     "legal_reasoning", "case_merit_analysis", "complex_analysis",
     "liability_assessment"}

TaskTypes == KnownTaskTypes \cup {"unlisted_task"}

\* task_complexity.get(task_type, 0.5), in hundredths
task_complexity(task_type) ==
    CASE task_type = "document_classification" -> 20
      [] task_type = "medical_summarization" -> 30
      [] task_type = "simple_extraction" -> 20
      [] task_type = "legal_reasoning" -> 80
      [] task_type = "case_merit_analysis" -> 90
      [] task_type = "complex_analysis" -> 80
      [] task_type = "liability_assessment" -> 80
      [] OTHER -> 50

\* The length tiers of analyze_request_complexity, in characters.
LengthTier3 == 50000
LengthTier2 == 20000
LengthTier1 == 10000

\* the three length tests as independent ifs, their bonuses added up
LengthBonus_Additive(content_length) ==
    (IF content_length > LengthTier3 THEN 30 ELSE 0)
    + (IF content_length > LengthTier2 THEN 20 ELSE 0)
    + (IF content_length > LengthTier1 THEN 10 ELSE 0)

\* The if / elif / elif chain on content_length, in hundredths.
LengthBonus(content_length) ==
    IF content_length > LengthTier3 THEN 30
    ELSE IF content_length > LengthTier2 THEN 20
    ELSE IF content_length > LengthTier1 THEN 10
    ELSE 0

\* legal_matches >= 3 and medical_matches >= 3
IndicatorThreshold == 3

\* analyze_request_complexity returning the sum without min(..., 1.0)
analyze_request_complexity_Unclamped(task_type, content, context) ==
    task_complexity(task_type) + LengthBonus(content.len)
    + (IF content.legal_matches >= IndicatorThreshold THEN 20 ELSE 0)
    + (IF content.medical_matches >= IndicatorThreshold THEN 10 ELSE 0)
    + (IF context.requires_reasoning THEN 20 ELSE 0)
    + (IF context.multi_step_analysis THEN 20 ELSE 0)
    + (IF context.high_stakes THEN 10 ELSE 0)

\* A content as the router reads it: len(content), the number of
\* legal_indicators and of medical_complexity_indicators found in
\* content.lower(), and len(gpt_tokenizer.encode(content)).
\* A context is the three flags the router looks up; a missing key and a
\* missing context both read as FALSE.
analyze_request_complexity(task_type, content, context) ==
    LET base    == task_complexity(task_type)
        length  == LengthBonus(content.len)
        legal   == IF content.legal_matches >= IndicatorThreshold THEN 20 ELSE 0
        medical == IF content.medical_matches >= IndicatorThreshold THEN 10 ELSE 0
        hints   == (IF context.requires_reasoning THEN 20 ELSE 0)
                   + (IF context.multi_step_analysis THEN 20 ELSE 0)
                   + (IF context.high_stakes THEN 10 ELSE 0)
        complexity_score == base + length + legal + medical + hints
    IN  IF complexity_score < 100 THEN complexity_score ELSE 100

\* int(len(content) / 3.5) for the Anthropic model, the tokenizer's count for
\* GPT-4o mini.
estimate_tokens(content, model_type) ==
    IF model_type = GPT_4O_MINI
    THEN content.gpt_tokens
    ELSE (content.len * 10) \div 35

\* MODEL_ROUTING_CONFIG: cost_per_1k_input and cost_per_1k_output, in units
\* of 1e-5 dollar per 1000 tokens.
MODEL_ROUTING_CONFIG ==
    [gpt_4o_mini       |-> [model_name |-> "gpt-4o-mini",
                            cost_per_1k_input |-> 15, cost_per_1k_output |-> 60,
                            use_cases |-> {"document_classification",
                                           "medical_summarization", "simple_extraction"}],
     claude_3_5_sonnet |-> [model_name |-> "claude-3-5-sonnet-20241022",
                            cost_per_1k_input |-> 300, cost_per_1k_output |-> 1500,
                            use_cases |-> {"legal_reasoning", "case_merit_analysis",
                                           "complex_analysis"}]]

\* calculate_cost reading the entry of the model that was not selected
calculate_cost_OtherEntry(input_tokens, output_tokens, model_type) ==
    LET other  == IF model_type = GPT_4O_MINI THEN CLAUDE_3_5_SONNET ELSE GPT_4O_MINI
        config == MODEL_ROUTING_CONFIG[other]
    IN  input_tokens * config.cost_per_1k_input
        + output_tokens * config.cost_per_1k_output

\* calculate_cost, in units of 1e-8 dollar: (tokens / 1000) * price per 1000.
calculate_cost(input_tokens, output_tokens, model_type) ==
    LET config == MODEL_ROUTING_CONFIG[model_type]
        input_cost  == input_tokens * config.cost_per_1k_input
        output_cost == output_tokens * config.cost_per_1k_output
    IN  input_cost + output_cost

\* settings.cost_threshold_complex, in hundredths
cost_threshold_complex == 80

\* the large-document limit of route_request, in characters
LargeDocumentChars == 100000

\* the forced list without liability_assessment
ForcedTaskTypes_WithoutLiability == {"case_merit_analysis", "legal_reasoning"}

\* The task types route_request sends to Claude whatever their score.
ForcedTaskTypes == {"case_merit_analysis", "legal_reasoning", "liability_assessment"}

HighComplexityReasoning(score) == <<"High complexity task requires advanced reasoning", score>>
LargeDocumentReasoning == <<"Large document requires extended context window">>
StandardReasoning(score) == <<"Standard complexity task optimized for cost", score>>

\* route_request with the large-document test made inclusive (>=)
route_request_InclusiveLimit(task_type, content, max_output_tokens, context) ==
    LET complexity_score == analyze_request_complexity(task_type, content, context)
        choice ==
            IF task_type \in ForcedTaskTypes \/ complexity_score > cost_threshold_complex
            THEN [selected_model |-> CLAUDE_3_5_SONNET,
                  reasoning |-> HighComplexityReasoning(complexity_score)]
            ELSE IF content.len >= LargeDocumentChars
            THEN [selected_model |-> CLAUDE_3_5_SONNET,
                  reasoning |-> LargeDocumentReasoning]
            ELSE [selected_model |-> GPT_4O_MINI,
                  reasoning |-> StandardReasoning(complexity_score)]
        input_tokens == estimate_tokens(content, choice.selected_model)
    IN  [selected_model |-> choice.selected_model,
         reasoning      |-> choice.reasoning,
         estimated_cost |-> calculate_cost(input_tokens, max_output_tokens,
                                           choice.selected_model),
         token_estimate |-> input_tokens + max_output_tokens]

\* route_request keeping state between calls: once an earlier call has been
\* answered, every call is sent to Claude
route_request_EscalatesAfterFirst(task_type, content, max_output_tokens, context) ==
    LET complexity_score == analyze_request_complexity(task_type, content, context)
        choice ==
            IF \/ task_type \in ForcedTaskTypes
               \/ complexity_score > cost_threshold_complex
               \/ routed # None
            THEN [selected_model |-> CLAUDE_3_5_SONNET,
                  reasoning |-> HighComplexityReasoning(complexity_score)]
            ELSE IF content.len > LargeDocumentChars
            THEN [selected_model |-> CLAUDE_3_5_SONNET,
                  reasoning |-> LargeDocumentReasoning]
            ELSE [selected_model |-> GPT_4O_MINI,
                  reasoning |-> StandardReasoning(complexity_score)]
        input_tokens == estimate_tokens(content, choice.selected_model)
    IN  [selected_model |-> choice.selected_model,
         reasoning      |-> choice.reasoning,
         estimated_cost |-> calculate_cost(input_tokens, max_output_tokens,
                                           choice.selected_model),
         token_estimate |-> input_tokens + max_output_tokens]

route_request(task_type, content, max_output_tokens, context) ==
    LET complexity_score == analyze_request_complexity(task_type, content, context)
        choice ==
            IF task_type \in ForcedTaskTypes \/ complexity_score > cost_threshold_complex
            THEN [selected_model |-> CLAUDE_3_5_SONNET,
                  reasoning |-> HighComplexityReasoning(complexity_score)]
            ELSE IF content.len > LargeDocumentChars
            THEN [selected_model |-> CLAUDE_3_5_SONNET,
                  reasoning |-> LargeDocumentReasoning]
            ELSE [selected_model |-> GPT_4O_MINI,
                  reasoning |-> StandardReasoning(complexity_score)]
        input_tokens == estimate_tokens(content, choice.selected_model)
    IN  [selected_model |-> choice.selected_model,
         reasoning      |-> choice.reasoning,
         estimated_cost |-> calculate_cost(input_tokens, max_output_tokens,
                                           choice.selected_model),
         token_estimate |-> input_tokens + max_output_tokens]

(***************************************************************************)
(* Regular expressions as Python's re module matches them.  A text is a    *)
(* sequence of one-character strings; a position p of 0..Len(t) lies       *)
(* before the character t[p+1].  A pattern is a tree of nodes:             *)
(*   [k |-> "set", s |-> S]            one character of the set S          *)
(*   [k |-> "wb"]                      \b                                  *)
(*   [k |-> "seq", xs |-> <<...>>]     concatenation                       *)
(*   [k |-> "alt", xs |-> <<...>>]     alternatives, tried left to right   *)
(*   [k |-> "rep", x |-> n, lo, hi]    greedy repetition, hi = -1: no limit*)
(* Ends(n, t, p) lists the positions at which a match of n from p can end, *)
(* in the order the backtracking matcher tries them, so that the first     *)
(* position of the whole pattern's list is the end of the match re finds.  *)
(***************************************************************************)

Digits == {"0", "1", "2", "3", "4", "5", "6", "7", "8", "9"}
LowerLetters == <<"a", "b", "c", "d", "e", "f", "g", "h", "i", "j", "k", "l", "m",
                  "n", "o", "p", "q", "r", "s", "t", "u", "v", "w", "x", "y", "z">>
UpperLetters == <<"A", "B", "C", "D", "E", "F", "G", "H", "I", "J", "K", "L", "M",
                  "N", "O", "P", "Q", "R", "S", "T", "U", "V", "W", "X", "Y", "Z">>
Range(f) == {f[i] : i \in DOMAIN f}
Lower == Range(LowerLetters)
Upper == Range(UpperLetters)
Letters == Lower \cup Upper
Whitespace == {" "}
WordChars == Letters \cup Digits \cup {"_"}
Punctuation == {"-", ".", "/", ":", "#", "@", "%", "+", "|", "[", "]"}
\* Every character of the texts considered.
\* A lone surrogate code point: a character of a Python str that is no word
\* character, no whitespace, and that str.encode() cannot encode.
LoneSurrogate == "\\ud800"
Surrogates == {LoneSurrogate}

Alphabet == WordChars \cup Whitespace \cup Punctuation \cup Surrogates

IndexOf(seq, c) == CHOOSE i \in DOMAIN seq : seq[i] = c
\* str.lower() and str.upper() on one character
lower(c) == IF c \in Upper THEN LowerLetters[IndexOf(UpperLetters, c)] ELSE c
upper(c) == IF c \in Lower THEN UpperLetters[IndexOf(LowerLetters, c)] ELSE c
LowerText(t) == [i \in DOMAIN t |-> lower(t[i])]
UpperText(t) == [i \in DOMAIN t |-> upper(t[i])]

\* re.IGNORECASE: a set of characters matches both cases of its letters.
IgnoreCase(S) == S \cup {lower(c) : c \in S} \cup {upper(c) : c \in S}

Set(S) == [k |-> "set", s |-> IgnoreCase(S)]
Chr(c) == Set({c})
WB == [k |-> "wb"]
Seq_(xs) == [k |-> "seq", xs |-> xs]
Alt(xs) == [k |-> "alt", xs |-> xs]
Rep(x, lo, hi) == [k |-> "rep", x |-> x, lo |-> lo, hi |-> hi]
Opt(x) == Rep(x, 0, 1)
Star(x) == Rep(x, 0, -1)
Plus(x) == Rep(x, 1, -1)
\* a literal word; under re.IGNORECASE its letters match in either case
Lit(w) == [k |-> "lit", w |-> LowerText(w)]

\* \b at position p of t
IsBoundary(t, p) ==
    LET before == p > 0 /\ t[p] \in WordChars
        after  == p < Len(t) /\ t[p + 1] \in WordChars
    IN  before # after

\* a followed by the positions of b that a does not hold yet
Union_(a, b) == a \o SelectSeq(b, LAMBDA e : e \notin Range(a))

\* the number of characters of s in a row behind position p, at most hi of
\* them when hi is not negative
RunLength(s, t, p, hi) ==
    Cardinality({k \in 1 .. (IF hi >= 0 /\ hi < Len(t) - p THEN hi ELSE Len(t) - p) :
                    \A j \in 1 .. k : t[p + j] \in s})

\* a greedy repetition of one character set over a run of n characters: the
\* longest end first, down to lo repetitions
RunEnds(p, lo, n) ==
    IF n < lo THEN <<>> ELSE [i \in 1 .. (n - lo + 1) |-> p + n + 1 - i]

RECURSIVE Ends(_, _, _), EndsSeq(_, _, _, _, _), EndsFrom(_, _, _, _, _),
          EndsAlt(_, _, _, _, _), EndsRep(_, _, _, _, _), EndsMore(_, _, _, _, _, _)

\* the positions where a match of n that starts at p can end, the end the
\* backtracking search reaches first at the head
Ends(n, t, p) ==
    CASE n.k = "set" -> IF p < Len(t) /\ t[p + 1] \in n.s THEN <<p + 1>> ELSE <<>>
      [] n.k = "wb"  -> IF IsBoundary(t, p) THEN <<p>> ELSE <<>>
      [] n.k = "lit" -> IF /\ p + Len(n.w) <= Len(t)
                           /\ \A i \in DOMAIN n.w : lower(t[p + i]) = n.w[i]
                        THEN <<p + Len(n.w)>> ELSE <<>>
      [] n.k = "seq" -> EndsSeq(n.xs, 1, Len(n.xs), t, <<p>>)
      [] n.k = "alt" -> EndsAlt(n.xs, 1, Len(n.xs), t, p)
      [] n.k = "rep" -> IF n.x.k = "set"
                        THEN RunEnds(p, n.lo, RunLength(n.x.s, t, p, n.hi))
                        ELSE EndsRep(n.x, n.lo, n.hi, t, p)

\* xs[lo], ..., xs[hi] in a row from each of the positions ps
EndsSeq(xs, lo, hi, t, ps) ==
    IF ps = <<>> \/ lo > hi THEN ps
    ELSE IF lo = hi THEN EndsFrom(xs[lo], t, ps, 1, Len(ps))
    ELSE EndsSeq(xs, (lo + hi) \div 2 + 1, hi, t,
                 EndsSeq(xs, lo, (lo + hi) \div 2, t, ps))

\* the ends of x from each of the positions ps[lo], ..., ps[hi], in their order
EndsFrom(x, t, ps, lo, hi) ==
    IF lo > hi THEN <<>>
    ELSE IF lo = hi THEN Ends(x, t, ps[lo])
    ELSE Union_(EndsFrom(x, t, ps, lo, (lo + hi) \div 2),
                EndsFrom(x, t, ps, (lo + hi) \div 2 + 1, hi))

\* the alternatives xs[lo], ..., xs[hi], the earlier one preferred
EndsAlt(xs, lo, hi, t, p) ==
    IF lo > hi THEN <<>>
    ELSE IF lo = hi THEN Ends(xs[lo], t, p)
    ELSE Union_(EndsAlt(xs, lo, (lo + hi) \div 2, t, p),
                EndsAlt(xs, (lo + hi) \div 2 + 1, hi, t, p))

\* greedy: one more repetition first, then stopping here
EndsRep(x, lo, hi, t, p) ==
    Union_(IF hi = 0 THEN <<>>
           ELSE EndsMore(x, lo, hi, t, SelectSeq(Ends(x, t, p), LAMBDA e : e > p), 1),
           IF lo > 0 THEN <<>> ELSE <<p>>)

EndsMore(x, lo, hi, t, es, j) ==
    IF j > Len(es) THEN <<>>
    ELSE Union_(EndsRep(x, IF lo > 0 THEN lo - 1 ELSE 0, IF hi > 0 THEN hi - 1 ELSE hi,
                        t, es[j]),
                EndsMore(x, lo, hi, t, es, j + 1))

\* the positions from p on where the pattern matches
MatchStarts(pattern, t, p) == {q \in p .. Len(t) : Ends(pattern, t, q) # <<>>}

Leftmost(starts) == CHOOSE q \in starts : \A r \in starts : q <= r

\* re.finditer(pattern, text): the matches from position p on, left to right,
\* none overlapping the one before it.
RECURSIVE finditer(_, _, _)

\* the match that starts at start and ends at end, then the scan behind it
MatchThenScan(pattern, t, start, end) ==
    <<[start |-> start, end |-> end]>>
    \o finditer(pattern, t, IF end = start THEN start + 1 ELSE end)

\* the leftmost match among starts, with the end the pattern prefers
LeftmostMatch(pattern, t, starts) ==
    IF starts = {} THEN <<>>
    ELSE MatchThenScan(pattern, t, Leftmost(starts), Ends(pattern, t, Leftmost(starts))[1])

finditer(pattern, t, p) == LeftmostMatch(pattern, t, MatchStarts(pattern, t, p))

\* text[a:b]
Slice(t, a, b) == SubSeq(t, a + 1, b)

(***************************************************************************)
(* PHI redactor: utils/phi_redaction.py, patterns of config/settings.py    *)
(***************************************************************************)

D == Set(Digits)
S_ == Set(Whitespace)
AlNum == Set(Letters \cup Digits)
Dash == Opt(Chr("-"))
DashDot == Opt(Set({"-", "."}))
DashSpace == Opt(Set({"-", " "}))
Slash == Set({"/", "-"})
\* \s*:?\s*
ColonSep == Seq_(<<Star(S_), Opt(Chr(":")), Star(S_)>>)
\* \s*#?\s*:?\s*
HashColonSep == Seq_(<<Star(S_), Opt(Chr("#")), Star(S_), Opt(Chr(":")), Star(S_)>>)
\* \d{1,2}[/-]\d{1,2}[/-]\d{2,4}
DateShape == Seq_(<<Rep(D, 1, 2), Slash, Rep(D, 1, 2), Slash, Rep(D, 2, 4)>>)

\* PHI_PATTERNS["ssn"]: \b\d{3}-?\d{2}-?\d{4}\b
re_ssn == Seq_(<<WB, Rep(D, 3, 3), Dash, Rep(D, 2, 2), Dash, Rep(D, 4, 4), WB>>)
\* PHI_PATTERNS["phone"]: \b\d{3}[-.]?\d{3}[-.]?\d{4}\b
re_phone == Seq_(<<WB, Rep(D, 3, 3), DashDot, Rep(D, 3, 3), DashDot, Rep(D, 4, 4), WB>>)
\* PHI_PATTERNS["email"]: \b[A-Za-z0-9._%+-]+@[A-Za-z0-9.-]+\.[A-Z|a-z]{2,}\b
re_email ==
    Seq_(<<WB, Plus(Set(Letters \cup Digits \cup {".", "_", "%", "+", "-"})), Chr("@"),
           Plus(Set(Letters \cup Digits \cup {".", "-"})), Chr("."),
           Rep(Set(Letters \cup {"|"}), 2, -1), WB>>)
\* PHI_PATTERNS["medical_record_number"]: \b(?:MRN|MR#|Medical Record)\s*:?\s*\d+\b
re_medical_record_number ==
    Seq_(<<WB, Alt(<<Lit(<<"M", "R", "N">>), Lit(<<"M", "R", "#">>),
                     Lit(<<"M", "e", "d", "i", "c", "a", "l", " ",
                           "R", "e", "c", "o", "r", "d">>)>>),
           ColonSep, Plus(D), WB>>)
\* PHI_PATTERNS["date_of_birth"]:
\*   \b(?:DOB|Date of Birth)\s*:?\s*\d{1,2}[/-]\d{1,2}[/-]\d{2,4}\b
re_date_of_birth ==
    Seq_(<<WB, Alt(<<Lit(<<"D", "O", "B">>),
                     Lit(<<"D", "a", "t", "e", " ", "o", "f", " ",
                           "B", "i", "r", "t", "h">>)>>),
           ColonSep, DateShape, WB>>)
\* extended_patterns["person_name"]: \b[A-Z][a-z]+\s+[A-Z][a-z]+\b
re_person_name ==
    Seq_(<<WB, Set(Upper), Plus(Set(Lower)), Plus(S_), Set(Upper), Plus(Set(Lower)), WB>>)
\* extended_patterns["address"]:
\*   \b\d+\s+[A-Za-z\s]+(?:Street|St|Avenue|Ave|Road|Rd|Boulevard|Blvd|Drive|Dr|Lane|Ln|
\*                        Court|Ct|Place|Pl)\b
re_address ==
    Seq_(<<WB, Plus(D), Plus(S_), Plus(Set(Letters \cup Whitespace)),
           Alt(<<Lit(<<"S", "t", "r", "e", "e", "t">>), Lit(<<"S", "t">>),
                 Lit(<<"A", "v", "e", "n", "u", "e">>), Lit(<<"A", "v", "e">>),
                 Lit(<<"R", "o", "a", "d">>), Lit(<<"R", "d">>),
                 Lit(<<"B", "o", "u", "l", "e", "v", "a", "r", "d">>),
                 Lit(<<"B", "l", "v", "d">>),
                 Lit(<<"D", "r", "i", "v", "e">>), Lit(<<"D", "r">>),
                 Lit(<<"L", "a", "n", "e">>), Lit(<<"L", "n">>),
                 Lit(<<"C", "o", "u", "r", "t">>), Lit(<<"C", "t">>),
                 Lit(<<"P", "l", "a", "c", "e">>), Lit(<<"P", "l">>)>>),
           WB>>)
\* extended_patterns["zip_code"]: \b\d{5}(?:-\d{4})?\b
re_zip_code == Seq_(<<WB, Rep(D, 5, 5), Opt(Seq_(<<Chr("-"), Rep(D, 4, 4)>>)), WB>>)
\* extended_patterns["medical_record_extended"]:
\*   \b(?:Patient\s+ID|Chart\s+#|Account\s+#)\s*:?\s*\d+\b
re_medical_record_extended ==
    Seq_(<<WB, Alt(<<Seq_(<<Lit(<<"P", "a", "t", "i", "e", "n", "t">>), Plus(S_),
                            Lit(<<"I", "D">>)>>),
                     Seq_(<<Lit(<<"C", "h", "a", "r", "t">>), Plus(S_), Chr("#")>>),
                     Seq_(<<Lit(<<"A", "c", "c", "o", "u", "n", "t">>), Plus(S_),
                            Chr("#")>>)>>),
           ColonSep, Plus(D), WB>>)
\* extended_patterns["insurance_id"]: \b(?:Policy|Member|Group)\s*#?\s*:?\s*[A-Za-z0-9]+\b
re_insurance_id ==
    Seq_(<<WB, Alt(<<Lit(<<"P", "o", "l", "i", "c", "y">>),
                     Lit(<<"M", "e", "m", "b", "e", "r">>),
                     Lit(<<"G", "r", "o", "u", "p">>)>>),
           HashColonSep, Plus(AlNum), WB>>)
\* extended_patterns["credit_card"]: \b\d{4}[-\s]?\d{4}[-\s]?\d{4}[-\s]?\d{4}\b
re_credit_card ==
    Seq_(<<WB, Rep(D, 4, 4), DashSpace, Rep(D, 4, 4), DashSpace, Rep(D, 4, 4), DashSpace,
           Rep(D, 4, 4), WB>>)
\* extended_patterns["bank_account"]: \b(?:Account|Acct)\s*#?\s*:?\s*\d{8,}\b
re_bank_account ==
    Seq_(<<WB, Alt(<<Lit(<<"A", "c", "c", "o", "u", "n", "t">>),
                     Lit(<<"A", "c", "c", "t">>)>>),
           HashColonSep, Rep(D, 8, -1), WB>>)
\* extended_patterns["dates"]: \b\d{1,2}[/-]\d{1,2}[/-]\d{2,4}\b
re_dates == Seq_(<<WB, DateShape, WB>>)
\* extended_patterns["website"]: https?://[^\s]+
re_website ==
    Seq_(<<Lit(<<"h", "t", "t", "p">>), Opt(Chr("s")), Lit(<<":", "/", "/">>),
           Plus([k |-> "set", s |-> Alphabet \ Whitespace])>>)
\* extended_patterns["license"]: \b(?:DL|License|Lic)\s*#?\s*:?\s*[A-Za-z0-9]+\b
re_license ==
    Seq_(<<WB, Alt(<<Lit(<<"D", "L">>), Lit(<<"L", "i", "c", "e", "n", "s", "e">>),
                     Lit(<<"L", "i", "c">>)>>),
           HashColonSep, Plus(AlNum), WB>>)

\* self.all_patterns = {**self.patterns, **self.extended_patterns}, in the
\* order the dictionary iterates; name is the key, letter by letter.
all_patterns ==
    << [type |-> "ssn", name |-> <<"s", "s", "n">>, re |-> re_ssn],
       [type |-> "phone", name |-> <<"p", "h", "o", "n", "e">>, re |-> re_phone],
       [type |-> "email", name |-> <<"e", "m", "a", "i", "l">>, re |-> re_email],
       [type |-> "medical_record_number",
        name |-> <<"m", "e", "d", "i", "c", "a", "l", "_", "r", "e", "c", "o", "r", "d",
                   "_", "n", "u", "m", "b", "e", "r">>,
        re |-> re_medical_record_number],
       [type |-> "date_of_birth",
        name |-> <<"d", "a", "t", "e", "_", "o", "f", "_", "b", "i", "r", "t", "h">>,
        re |-> re_date_of_birth],
       [type |-> "person_name",
        name |-> <<"p", "e", "r", "s", "o", "n", "_", "n", "a", "m", "e">>,
        re |-> re_person_name],
       [type |-> "address", name |-> <<"a", "d", "d", "r", "e", "s", "s">>,
        re |-> re_address],
       [type |-> "zip_code", name |-> <<"z", "i", "p", "_", "c", "o", "d", "e">>,
        re |-> re_zip_code],
       [type |-> "medical_record_extended",
        name |-> <<"m", "e", "d", "i", "c", "a", "l", "_", "r", "e", "c", "o", "r", "d",
                   "_", "e", "x", "t", "e", "n", "d", "e", "d">>,
        re |-> re_medical_record_extended],
       [type |-> "insurance_id",
        name |-> <<"i", "n", "s", "u", "r", "a", "n", "c", "e", "_", "i", "d">>,
        re |-> re_insurance_id],
       [type |-> "credit_card",
        name |-> <<"c", "r", "e", "d", "i", "t", "_", "c", "a", "r", "d">>,
        re |-> re_credit_card],
       [type |-> "bank_account",
        name |-> <<"b", "a", "n", "k", "_", "a", "c", "c", "o", "u", "n", "t">>,
        re |-> re_bank_account],
       [type |-> "dates", name |-> <<"d", "a", "t", "e", "s">>, re |-> re_dates],
       [type |-> "website", name |-> <<"w", "e", "b", "s", "i", "t", "e">>,
        re |-> re_website],
       [type |-> "license", name |-> <<"l", "i", "c", "e", "n", "s", "e">>,
        re |-> re_license] >>

\* MEDICAL_PHI_PATTERNS["patient_id"]: \b(?:Patient|Pt)\s*(?:ID|#)\s*:?\s*\d+\b
re_patient_id ==
    Seq_(<<WB, Alt(<<Lit(<<"P", "a", "t", "i", "e", "n", "t">>), Lit(<<"P", "t">>)>>),
           Star(S_), Alt(<<Lit(<<"I", "D">>), Chr("#")>>), ColonSep, Plus(D), WB>>)
\* MEDICAL_PHI_PATTERNS["dob_medical"]:
\*   \b(?:DOB|Date\s+of\s+Birth|Born)\s*:?\s*\d{1,2}[/-]\d{1,2}[/-]\d{2,4}\b
re_dob_medical ==
    Seq_(<<WB, Alt(<<Lit(<<"D", "O", "B">>),
                     Seq_(<<Lit(<<"D", "a", "t", "e">>), Plus(S_), Lit(<<"o", "f">>),
                            Plus(S_), Lit(<<"B", "i", "r", "t", "h">>)>>),
                     Lit(<<"B", "o", "r", "n">>)>>),
           ColonSep, DateShape, WB>>)
\* MEDICAL_PHI_PATTERNS["diagnosis_codes"]: \b[A-Z]\d{2}(?:\.\d{1,2})?\b
re_diagnosis_codes ==
    Seq_(<<WB, Set(Upper), Rep(D, 2, 2), Opt(Seq_(<<Chr("."), Rep(D, 1, 2)>>)), WB>>)
\* MEDICAL_PHI_PATTERNS["procedure_codes"]: \b\d{5}\b
re_procedure_codes == Seq_(<<WB, Rep(D, 5, 5), WB>>)
\* MEDICAL_PHI_PATTERNS["medication_doses"]: \b\d+\s*(?:mg|mcg|ml|cc|units?)\b
re_medication_doses ==
    Seq_(<<WB, Plus(D), Star(S_),
           Alt(<<Lit(<<"m", "g">>), Lit(<<"m", "c", "g">>), Lit(<<"m", "l">>),
                 Lit(<<"c", "c">>),
                 Seq_(<<Lit(<<"u", "n", "i", "t">>), Opt(Chr("s"))>>)>>),
           WB>>)
\* MEDICAL_PHI_PATTERNS["vital_signs"]: \b(?:BP|Blood\s+Pressure)\s*:?\s*\d{2,3}/\d{2,3}\b
re_vital_signs ==
    Seq_(<<WB, Alt(<<Lit(<<"B", "P">>),
                     Seq_(<<Lit(<<"B", "l", "o", "o", "d">>), Plus(S_),
                            Lit(<<"P", "r", "e", "s", "s", "u", "r", "e">>)>>)>>),
           ColonSep, Rep(D, 2, 3), Chr("/"), Rep(D, 2, 3), WB>>)

MEDICAL_PHI_PATTERNS ==
    << [type |-> "patient_id",
        name |-> <<"p", "a", "t", "i", "e", "n", "t", "_", "i", "d">>,
        re |-> re_patient_id],
       [type |-> "dob_medical",
        name |-> <<"d", "o", "b", "_", "m", "e", "d", "i", "c", "a", "l">>,
        re |-> re_dob_medical],
       [type |-> "diagnosis_codes",
        name |-> <<"d", "i", "a", "g", "n", "o", "s", "i", "s", "_", "c", "o", "d", "e",
                   "s">>,
        re |-> re_diagnosis_codes],
       [type |-> "procedure_codes",
        name |-> <<"p", "r", "o", "c", "e", "d", "u", "r", "e", "_", "c", "o", "d", "e",
                   "s">>,
        re |-> re_procedure_codes],
       [type |-> "medication_doses",
        name |-> <<"m", "e", "d", "i", "c", "a", "t", "i", "o", "n", "_", "d", "o", "s",
                   "e", "s">>,
        re |-> re_medication_doses],
       [type |-> "vital_signs",
        name |-> <<"v", "i", "t", "a", "l", "_", "s", "i", "g", "n", "s">>,
        re |-> re_vital_signs] >>

\* MedicalPHIRedactor: self.all_patterns.update(MEDICAL_PHI_PATTERNS)
medical_all_patterns == all_patterns \o MEDICAL_PHI_PATTERNS

\* self.name_exceptions (a set: is_likely_name only asks whether any occurs)
name_exceptions ==
    { <<"d", "o", "c", "t", "o", "r">>, <<"d", "r">>,
      <<"p", "h", "y", "s", "i", "c", "i", "a", "n">>, <<"n", "u", "r", "s", "e">>,
      <<"a", "t", "t", "o", "r", "n", "e", "y">>, <<"l", "a", "w", "y", "e", "r">>,
      <<"j", "u", "d", "g", "e">>, <<"h", "o", "s", "p", "i", "t", "a", "l">>,
      <<"c", "l", "i", "n", "i", "c">>, <<"m", "e", "d", "i", "c", "a", "l">>,
      <<"c", "e", "n", "t", "e", "r">>, <<"h", "e", "a", "l", "t", "h">>,
      <<"c", "a", "r", "e">>, <<"i", "n", "s", "u", "r", "a", "n", "c", "e">>,
      <<"c", "o", "m", "p", "a", "n", "y">>,
      <<"c", "o", "r", "p", "o", "r", "a", "t", "i", "o", "n">>,
      <<"i", "n", "c">>, <<"l", "l", "c">>, <<"f", "i", "r", "m">> }

\* sub in t
Contains(t, sub) ==
    \E a \in 0 .. (Len(t) - Len(sub)) : Slice(t, a, a + Len(sub)) = sub

\* str.split(): the maximal runs of characters that are not whitespace
RECURSIVE split(_)
split(t) ==
    IF t = <<>> THEN <<>>
    ELSE IF t[1] \in Whitespace THEN split(Tail(t))
    ELSE LET n == CHOOSE n \in 1 .. Len(t) :
                     /\ \A i \in 1 .. n : t[i] \notin Whitespace
                     /\ (n = Len(t) \/ t[n + 1] \in Whitespace)
         IN  <<SubSeq(t, 1, n)>> \o split(SubSeq(t, n + 1, Len(t)))

\* str.isupper() / str.islower(): at least one cased character, and no cased
\* character of the other case
isupper(w) == (\E i \in DOMAIN w : w[i] \in Upper) /\ (\A i \in DOMAIN w : w[i] \notin Lower)
islower(w) == (\E i \in DOMAIN w : w[i] \in Lower) /\ (\A i \in DOMAIN w : w[i] \notin Upper)

is_likely_name(t) ==
    IF \E exception \in name_exceptions : Contains(LowerText(t), exception)
    THEN FALSE
    ELSE LET words == split(t)
         IN  IF Len(words) = 2
             THEN \A i \in 1 .. 2 : isupper(<<words[i][1]>>) /\ islower(Tail(words[i]))
             ELSE FALSE

\* the matches detect_phi collects for one pattern, in text order
\* (phi_type, match.group(), match.start(), match.end())
MatchTuple(pat, t, match) ==
    [type |-> pat.type, name |-> pat.name,
     original |-> Slice(t, match.start, match.end),
     start |-> match.start, end |-> match.end]

\* the matches of one pattern that detect_phi appends: all of them, except
\* for person_name, where only the likely names are kept
AppendedMatches(pat, t, found) ==
    SelectSeq([i \in DOMAIN found |-> MatchTuple(pat, t, found[i])],
              LAMBDA m : pat.type = "person_name" => is_likely_name(m.original))

MatchesOf(pat, t) == AppendedMatches(pat, t, finditer(pat.re, t, 0))

\* the loop of detect_phi over the patterns pats[lo], ..., pats[hi]: the
\* matches of each pattern, in the order of the patterns
RECURSIVE CollectMatches(_, _, _, _)
CollectMatches(pats, lo, hi, t) ==
    IF lo > hi THEN <<>>
    ELSE IF lo = hi THEN MatchesOf(pats[lo], t)
    ELSE CollectMatches(pats, lo, (lo + hi) \div 2, t)
         \o CollectMatches(pats, (lo + hi) \div 2 + 1, hi, t)

\* list.sort(key=lambda x: x[2], reverse=True): by start position, largest
\* first; the sort is stable, matches of equal start keep their order.
RECURSIVE SortByStartDesc(_)
\* the insertion of a sort by start position with the smallest first
InsertByStartDesc_Ascending(sorted, m) ==
    LET k == Cardinality({i \in DOMAIN sorted : sorted[i].start <= m.start})
    IN  SubSeq(sorted, 1, k) \o <<m>> \o SubSeq(sorted, k + 1, Len(sorted))
InsertByStartDesc(sorted, m) ==
    LET k == Cardinality({i \in DOMAIN sorted : sorted[i].start >= m.start})
    IN  SubSeq(sorted, 1, k) \o <<m>> \o SubSeq(sorted, k + 1, Len(sorted))
SortByStartDesc(ms) ==
    IF ms = <<>> THEN <<>>
    ELSE InsertByStartDesc(SortByStartDesc(SubSeq(ms, 1, Len(ms) - 1)), ms[Len(ms)])

\* a detection that keeps, of the matches that overlap, only the first in the
\* sorted order
detect_phi_with_Coalesced(pats, t) ==
    LET ms   == SortByStartDesc(CollectMatches(pats, 1, Len(pats), t))
        keep == {i \in DOMAIN ms :
                    \A j \in 1 .. (i - 1) :
                        ms[j].end <= ms[i].start \/ ms[i].end <= ms[j].start}
    IN  [k \in 1 .. Cardinality(keep) |->
            ms[CHOOSE i \in keep : Cardinality({j \in keep : j <= i}) = k]]

detect_phi_with(pats, t) == SortByStartDesc(CollectMatches(pats, 1, Len(pats), t))
detect_phi(t) == detect_phi_with(all_patterns, t)

\* hashlib.md5(original_text.encode()).hexdigest()[:8]: the digests of the
\* values the patterns match in the texts considered.
Md5Hex8(original_text) ==
    CASE original_text = <<"1", "/", "2", "/", "9", "0">>
          -> <<"3", "2", "f", "d", "b", "6", "c", "4">>
      [] original_text = <<"1", "2", "3", "4", "5">>
          -> <<"8", "2", "7", "c", "c", "b", "0", "e">>
      [] original_text = <<"1", "2", "3", "4", "5", "-", "6", "7", "8", "9">>
          -> <<"3", "d", "7", "d", "e", "b", "3", "0">>
      [] original_text = <<"7", "/", "8", "/", "5", "6">>
          -> <<"3", "a", "0", "4", "d", "5", "b", "4">>
      [] original_text = <<"7", "8", "9", "0", "1">>
          -> <<"e", "4", "8", "b", "8", "e", "6", "2">>
      [] original_text = <<"7", "8", "9", "0", "1", "-", "2", "3", "4", "5">>
          -> <<"0", "b", "c", "c", "d", "8", "9", "4">>
      [] original_text = <<"C", "y", " ", "C", "y">>
          -> <<"8", "3", "a", "9", "8", "8", "0", "c">>
      [] original_text = <<"C", "y", " ", "D", "e", "e">>
          -> <<"2", "b", "9", "b", "1", "e", "8", "8">>
      [] original_text = <<"C", "y", " ", "L", "e", "e">>
          -> <<"3", "e", "0", "7", "c", "8", "8", "a">>
      [] original_text = <<"D", "L", " ", "a", "b">>
          -> <<"6", "6", "a", "e", "3", "d", "6", "2">>
      [] original_text = <<"D", "O", "B", ":", "1", "/", "2", "/", "9", "0">>
          -> <<"9", "2", "b", "9", "d", "8", "0", "a">>
      [] original_text = <<"D", "O", "B", ":", "7", "/", "8", "/", "5", "6">>
          -> <<"c", "3", "8", "7", "c", "3", "b", "8">>
      [] original_text = <<"D", "e", "e", " ", "C", "y">>
          -> <<"4", "3", "c", "b", "c", "2", "7", "5">>
      [] original_text = <<"D", "e", "e", " ", "D", "e", "e">>
          -> <<"7", "5", "e", "0", "4", "1", "6", "4">>
      [] original_text = <<"D", "e", "e", " ", "L", "e", "e">>
          -> <<"c", "4", "7", "d", "d", "f", "9", "0">>

\* original_text.encode() succeeds: UTF-8 encodes every character but a
\* surrogate, for which it raises UnicodeEncodeError
CanEncode(original_text) ==
    \A i \in DOMAIN original_text : original_text[i] \notin Surrogates

\* the token without the digest of the original
generate_replacement_token_TypeOnly(phi_name, original_text) ==
    <<"[">> \o UpperText(phi_name) \o <<"]">>

\* "[" + phi_type.upper() + "_" + md5(original).hexdigest()[:8] + "]"
generate_replacement_token(phi_name, original_text) ==
    <<"[">> \o UpperText(phi_name) \o <<"_">> \o Md5Hex8(original_text) \o <<"]">>

Spaces(n) == [i \in 1 .. n |-> " "]

\* the replacement of one match: the token, padded with spaces to the length
\* of the match when preserve_structure is set and the token is shorter
Replacement(m, preserve_structure) ==
    LET replacement_token == generate_replacement_token(m.name, m.original)
    IN  IF preserve_structure /\ Len(replacement_token) < Len(m.original)
        THEN replacement_token \o Spaces(Len(m.original) - Len(replacement_token))
        ELSE replacement_token

\* redacted_text[:start_pos] + replacement + redacted_text[end_pos:]
Splice(redacted_text, start_pos, end_pos, replacement) ==
    Slice(redacted_text, 0, start_pos) \o replacement
        \o Slice(redacted_text, end_pos, Len(redacted_text))

\* the loop of redact_text over phi_matches[i], phi_matches[i+1], ...
RECURSIVE SubstituteFrom(_, _, _, _)
SubstituteFrom(redacted_text, phi_matches, i, preserve_structure) ==
    IF i > Len(phi_matches) THEN redacted_text
    ELSE SubstituteFrom(Splice(redacted_text, phi_matches[i].start, phi_matches[i].end,
                               Replacement(phi_matches[i], preserve_structure)),
                        phi_matches, i + 1, preserve_structure)

redaction_info(m) ==
    [type |-> m.type, original |-> m.original,
     replacement |-> generate_replacement_token(m.name, m.original),
     start |-> m.start, end |-> m.end]

\* RedactionResult with phi_detected computed as len(redactions_made) >= 0
RedactionResult_FlagAlways(redacted_text, redactions_made) ==
    [redacted_text   |-> redacted_text,
     redactions_made |-> redactions_made,
     phi_detected    |-> Len(redactions_made) >= 0]

\* the RedactionResult redact_text returns
RedactionResult(redacted_text, redactions_made) ==
    [redacted_text   |-> redacted_text,
     redactions_made |-> redactions_made,
     phi_detected    |-> Len(redactions_made) > 0]

\* the body of redact_text from the detected matches on
RedactMatches(t, phi_matches, preserve_structure) ==
    RedactionResult(SubstituteFrom(t, phi_matches, 1, preserve_structure),
                    [i \in DOMAIN phi_matches |-> redaction_info(phi_matches[i])])

redact_text_with(pats, t, preserve_structure) ==
    IF t = <<>>
    THEN [redacted_text |-> <<>>, redactions_made |-> <<>>, phi_detected |-> FALSE]
    ELSE RedactMatches(t, detect_phi_with(pats, t), preserve_structure)

redact_text(t, preserve_structure) == redact_text_with(all_patterns, t, preserve_structure)

\* redact_text raises instead of returning: generate_replacement_token is
\* called for every match of a text that is not empty, and it raises where
\* the matched text cannot be encoded
RaisesOnSomeMatch(phi_matches) ==
    \E i \in DOMAIN phi_matches : ~CanEncode(phi_matches[i].original)

redact_text_raises(t) == t # <<>> /\ RaisesOnSomeMatch(detect_phi(t))

\* the report of check_compliance with the high level starting at 5 matches
ComplianceReport_HighFromFive(phi_matches) ==
    [compliant    |-> Len(phi_matches) = 0,
     phi_detected |-> Len(phi_matches) > 0,
     phi_count    |-> Len(phi_matches),
     phi_types    |-> {phi_matches[i].type : i \in DOMAIN phi_matches},
     risk_level   |-> IF Len(phi_matches) >= 5 THEN "high"
                      ELSE IF Len(phi_matches) > 0 THEN "medium" ELSE "low"]

\* the dictionary check_compliance returns for the matches detected
ComplianceReport(phi_matches) ==
    [compliant    |-> Len(phi_matches) = 0,
     phi_detected |-> Len(phi_matches) > 0,
     phi_count    |-> Len(phi_matches),
     phi_types    |-> {phi_matches[i].type : i \in DOMAIN phi_matches},
     risk_level   |-> IF Len(phi_matches) > 5 THEN "high"
                      ELSE IF Len(phi_matches) > 0 THEN "medium" ELSE "low"]

check_compliance(t) == ComplianceReport(detect_phi(t))

\* an audit log whose summary also holds the matched value of each redaction
create_audit_log_WithOriginals(redaction_result) ==
    [phi_detected |-> redaction_result.phi_detected,
     redaction_count |-> Len(redaction_result.redactions_made),
     phi_types |-> {redaction_result.redactions_made[i].type :
                      i \in DOMAIN redaction_result.redactions_made},
     redaction_summary |->
         [i \in DOMAIN redaction_result.redactions_made |->
             [type |-> redaction_result.redactions_made[i].type,
              original |-> redaction_result.redactions_made[i].original,
              position |-> <<redaction_result.redactions_made[i].start,
                             redaction_result.redactions_made[i].end>>]]]

\* create_audit_log without its timestamp and document_id, which do not
\* depend on the text; a position "start-end" is the pair of its two numbers
create_audit_log(redaction_result) ==
    [phi_detected |-> redaction_result.phi_detected,
     redaction_count |-> Len(redaction_result.redactions_made),
     phi_types |-> {redaction_result.redactions_made[i].type :
                      i \in DOMAIN redaction_result.redactions_made},
     redaction_summary |->
         [i \in DOMAIN redaction_result.redactions_made |->
             [type |-> redaction_result.redactions_made[i].type,
              position |-> <<redaction_result.redactions_made[i].start,
                             redaction_result.redactions_made[i].end>>]]]

\* return redaction_result.redacted_text, audit_log
SafeContentAndAudit(redaction_result) ==
    [content |-> redaction_result.redacted_text,
     phi_audit |-> create_audit_log(redaction_result)]

\* safe_for_ai_processing: redact_text with the default preserve_structure,
\* paired with the audit log of the redaction
safe_for_ai_processing_with(pats, t) ==
    SafeContentAndAudit(redact_text_with(pats, t, TRUE))

\* phi_redactor.safe_for_ai_processing
safe_for_ai_processing(t) == safe_for_ai_processing_with(all_patterns, t)
\* medical_phi_redactor.safe_for_ai_processing
medical_safe_for_ai_processing(t) == safe_for_ai_processing_with(medical_all_patterns, t)

(***************************************************************************)
(* The redactor as a state machine: a caller composes a text of at most    *)
(* MaxSegments segments, has it redacted, and runs the detector again on   *)
(* the redacted text.                                                      *)
(***************************************************************************)

MaxSegments == 3

\* The pieces the texts are made of.
Vocabulary ==
    { <<"a", "t", " ">>,
      <<"D", "L", " ", "a", "b", " ">>,
      <<"C", "y", " ", "D", "e", "e", " ">>,
      <<"D", "e", "e", " ", "C", "y", " ">>,
      <<"L", "e", "e", " ", "I", "n", "c", " ">>,
      <<"1", "2", "3", "4", "5", "-", "6", "7", "8", "9", " ">>,
      <<"D", "O", "B", ":", "1", "/", "2", "/", "9", "0", " ">> }

\* Pieces with a lone surrogate: one inside a URL, one on its own.
UnencodableVocabulary ==
    { <<"h", "t", "t", "p", ":", "/", "/", LoneSurrogate, " ">>,
      <<LoneSurrogate, " ">> }

RedactorInit ==
    /\ text = <<>>
    /\ segments = 0
    /\ redaction = None
    /\ redetected = None
    /\ compliance = None
    /\ failure = None

\* the text is composed before the redactor is called on it
Composing == redaction = None /\ compliance = None /\ failure = None

TypeSegment ==
    /\ Composing
    /\ segments < MaxSegments
    /\ \E seg \in Vocabulary : text' = text \o seg
    /\ segments' = segments + 1
    /\ UNCHANGED <<redaction, redetected, compliance, failure,
                   routerVars, ledgerVars, pipelineVars, callVars>>

TypeUnencodableSegment ==
    /\ Composing
    /\ segments < MaxSegments
    /\ \E seg \in UnencodableVocabulary : text' = text \o seg
    /\ segments' = segments + 1
    /\ UNCHANGED <<redaction, redetected, compliance, failure,
                   routerVars, ledgerVars, pipelineVars, callVars>>

\* redact_text(text, preserve_structure): the RedactionResult, or the
\* UnicodeEncodeError of generate_replacement_token, which redact_text does
\* not catch
RedactText ==
    /\ redaction = None
    /\ failure = None
    /\ IF redact_text_raises(text)
       THEN /\ failure' = Some([op |-> "redact_text", raised |-> "UnicodeEncodeError"])
            /\ UNCHANGED redaction
       ELSE /\ \E preserve_structure \in BOOLEAN :
                  redaction' = Some([result |-> redact_text(text, preserve_structure),
                                     preserve_structure |-> preserve_structure])
            /\ UNCHANGED failure
    /\ UNCHANGED <<text, segments, redetected, compliance,
                   routerVars, ledgerVars, pipelineVars, callVars>>

\* detect_phi(redaction.redacted_text)
DetectAgain ==
    /\ redaction # None
    /\ redetected = None
    /\ redetected' = Some(detect_phi(The(redaction).result.redacted_text))
    /\ UNCHANGED <<text, segments, redaction, compliance, failure,
                   routerVars, ledgerVars, pipelineVars, callVars>>

\* check_compliance(text)
CheckCompliance ==
    /\ compliance = None
    /\ compliance' = Some(check_compliance(text))
    /\ UNCHANGED <<text, segments, redaction, redetected, failure,
                   routerVars, ledgerVars, pipelineVars, callVars>>

RedactorNext ==
    TypeSegment \/ TypeUnencodableSegment \/ RedactText \/ DetectAgain \/ CheckCompliance

(***************************************************************************)
(* The router as a state machine: a caller submits a request and           *)
(* route_request answers it.                                               *)
(***************************************************************************)

ContentLengths ==
    {0, 10, 100, LengthTier1, LengthTier1 + 1, LengthTier2, LengthTier2 + 1,
     LengthTier3, LengthTier3 + 1, LargeDocumentChars, LargeDocumentChars + 1}

\* Contents as the router reads them.  A content of 10 characters or fewer
\* holds no three indicators; the tokenizer gives a content of n characters
\* between n / 4 and n tokens.
Contents ==
    UNION { { [len |-> n, legal_matches |-> l, medical_matches |-> m, gpt_tokens |-> g] :
                g \in {(n + 3) \div 4, n} } :
            n \in ContentLengths,
            l \in {0, IndicatorThreshold - 1, IndicatorThreshold},
            m \in {0, IndicatorThreshold} }

RoutableContents ==
    {c \in Contents : (c.legal_matches = 0 /\ c.medical_matches = 0) \/ c.len >= 100}

Contexts ==
    [requires_reasoning : BOOLEAN, multi_step_analysis : BOOLEAN, high_stakes : BOOLEAN]

NoContext ==
    [requires_reasoning |-> FALSE, multi_step_analysis |-> FALSE, high_stakes |-> FALSE]

OutputTokenChoices == {200, 1000}

\* The requests whose decision is kept to compare a later call with: one
\* that goes to GPT-4o mini and one that goes to Claude by its score.
ProbeRequests ==
    {[task_type |-> "document_classification",
      content |-> [len |-> 10, legal_matches |-> 0, medical_matches |-> 0, gpt_tokens |-> 10],
      max_output_tokens |-> 200, context |-> NoContext],
     [task_type |-> "complex_analysis",
      content |-> [len |-> 100, legal_matches |-> 0, medical_matches |-> 0, gpt_tokens |-> 25],
      max_output_tokens |-> 1000,
      context |-> [requires_reasoning |-> TRUE, multi_step_analysis |-> FALSE,
                   high_stakes |-> FALSE]]}

\* the calls counted between the kept call and the current one
MaxCallsSince == 2

RouterInit ==
    /\ rreq = None
    /\ decision = None
    /\ routed = None

SubmitRequest ==
    /\ rreq = None
    /\ \E task_type \in TaskTypes, content \in RoutableContents,
          max_output_tokens \in OutputTokenChoices, context \in Contexts :
          rreq' = Some([task_type |-> task_type, content |-> content,
                        max_output_tokens |-> max_output_tokens, context |-> context])
    /\ UNCHANGED <<decision, routed, redactorVars, ledgerVars, pipelineVars, callVars>>

RouteRequest ==
    /\ rreq # None
    /\ decision = None
    /\ decision' = Some(route_request(The(rreq).task_type, The(rreq).content,
                                      The(rreq).max_output_tokens, The(rreq).context))
    /\ UNCHANGED <<rreq, routed, redactorVars, ledgerVars, pipelineVars, callVars>>

\* route_request returns its RoutingDecision and the router is free for the
\* next call.  The first call of a probe request is kept with its decision;
\* every later call is counted.
ReturnDecision ==
    /\ decision # None
    /\ rreq' = None
    /\ decision' = None
    /\ routed' =
          IF routed # None
          THEN Some([The(routed) EXCEPT
                        !.calls_since = IF @ < MaxCallsSince THEN @ + 1 ELSE @])
          ELSE IF The(rreq) \in ProbeRequests
          THEN Some([request |-> The(rreq), decision |-> The(decision),
                     calls_since |-> 0])
          ELSE routed
    /\ UNCHANGED <<redactorVars, ledgerVars, pipelineVars, callVars>>

RouterNext == SubmitRequest \/ RouteRequest \/ ReturnDecision

(***************************************************************************)
(* The usage ledger: the table token_usage_log with its two writers        *)
(* (CostMonitor.log_token_usage, database.log_token_usage) and its         *)
(* readers.  Money is in units of 1e-5 dollar, the unit in which           *)
(* MODEL_ROUTING_CONFIG above holds its prices per 1000 tokens; token      *)
(* counts are multiples of 1000, so (tokens / 1000) * price is exact.      *)
(* Time is counted in days.                                                *)
(***************************************************************************)

MaxRows == 3
MaxDay == 1

Firms == {1, 2}
Users == {1}
Services == {"classification"}
RequestIds == {"req-1"}
UNREGISTERED_MODEL == "gpt-3.5-turbo"
ModelNames == {"gpt-4o-mini", "claude-3-5-sonnet-20241022", UNREGISTERED_MODEL}
\* <<input_tokens, output_tokens>>
TokenCounts == {<<500000, 0>>, <<1000000, 300000>>}
\* The counts a call of CostMonitor.log_token_usage is given for a model: the
\* counts above and, for the Claude model, a negative count as a faulty
\* usage report of the execution adapter would carry it.
ReportedTokenCounts(model_name) ==
    IF model_name = "claude-3-5-sonnet-20241022"
    THEN TokenCounts \cup {<<-500000, 0>>}
    ELSE TokenCounts

\* settings.token_budget_daily as configured for a 10 dollar daily budget
token_budget_daily == 5000
\* CostMonitor.__init__: daily_budget = token_budget_daily * 0.002 dollar
BudgetPerToken == 200
daily_budget == token_budget_daily * BudgetPerToken
\* thresholds as fractions of 100
warning_threshold == 80
critical_threshold == 95
\* cost_target_per_doc = 0.006 dollar
cost_target_per_doc == 600

\* the "Default pricing for unknown models" of log_token_usage
default_pricing == [cost_per_1k_input |-> 100, cost_per_1k_output |-> 200]

\* the loop over MODEL_ROUTING_CONFIG.items() that looks the model name up
model_pricing(model_name) ==
    LET keys == {k \in DOMAIN MODEL_ROUTING_CONFIG :
                    MODEL_ROUTING_CONFIG[k].model_name = model_name}
    IN  IF keys # {} THEN MODEL_ROUTING_CONFIG[CHOOSE k \in keys : TRUE]
        ELSE default_pricing

token_cost(tokens, cost_per_1k) == (tokens \div 1000) * cost_per_1k

\* a row of token_usage_log; created_at defaults to func.now()
TokenUsageLog(firm_id, user_id, service_name, model_name, input_tokens, output_tokens, total_tokens, input_cost, output_cost, total_cost, request_id, created_at) ==
    [firm_id |-> firm_id, user_id |-> user_id, service_name |-> service_name,
     model_name |-> model_name, input_tokens |-> input_tokens,
     output_tokens |-> output_tokens, total_tokens |-> total_tokens,
     input_cost |-> input_cost, output_cost |-> output_cost, total_cost |-> total_cost,
     request_id |-> request_id, created_at |-> created_at]

\* a commit that replaces the row of the same request_id (an upsert)
AddAndCommit_Upsert(rows, usage_log) ==
    IF \E i \in DOMAIN rows : rows[i].request_id = usage_log.request_id
    THEN [i \in DOMAIN rows |-> IF rows[i].request_id = usage_log.request_id
                                THEN usage_log ELSE rows[i]]
    ELSE Append(rows, usage_log)

\* a commit that keeps one row per firm and overwrites it in place
AddAndCommit_InPlace(rows, usage_log) ==
    IF \E i \in DOMAIN rows : rows[i].firm_id = usage_log.firm_id
    THEN [i \in DOMAIN rows |-> IF rows[i].firm_id = usage_log.firm_id
                                THEN usage_log ELSE rows[i]]
    ELSE Append(rows, usage_log)

\* session.add(usage_log); session.commit()
AddAndCommit(rows, usage_log) == Append(rows, usage_log)

\* the selection without the test on firm_id
SelectRows_AllFirms(rows, firm_id, start_date, end_date) ==
    SelectSeq(rows, LAMBDA r : /\ r.created_at >= start_date
                               /\ r.created_at <= end_date)

\* WHERE firm_id == firm_id AND created_at >= start AND created_at <= end
SelectRows(rows, firm_id, start_date, end_date) ==
    SelectSeq(rows, LAMBDA r : /\ r.firm_id = firm_id
                               /\ r.created_at >= start_date
                               /\ r.created_at <= end_date)

RECURSIVE SumOf(_, _)
\* func.sum(column) "or 0"
SumOf(rows, column) ==
    IF rows = <<>> THEN 0 ELSE rows[1][column] + SumOf(Tail(rows), column)

\* the rows of the firm created since today_start
TodayRows(rows, firm_id, now) == SelectRows(rows, firm_id, now, now)

\* _check_budget_limits: the level it logs at, from daily_spend / daily_budget
budget_alert(daily_spend) ==
    IF daily_spend * 100 >= critical_threshold * daily_budget THEN "critical"
    ELSE IF daily_spend * 100 >= warning_threshold * daily_budget THEN "warning"
    ELSE "none"

\* _check_budget_limits; a failure of the query is logged and swallowed
check_budget_limits(rows, firm_id, now, query_ok) ==
    IF query_ok THEN budget_alert(SumOf(TodayRows(rows, firm_id, now), "total_cost"))
    ELSE "check_failed"

\* _get_budget_status with strict comparisons (>)
get_budget_status_Strict(used_percentage) ==
    IF used_percentage.num > critical_threshold * used_percentage.den THEN "critical"
    ELSE IF used_percentage.num > warning_threshold * used_percentage.den THEN "warning"
    ELSE "healthy"

\* _get_budget_status; used_percentage is the fraction num / den
get_budget_status(used_percentage) ==
    IF used_percentage.num >= critical_threshold * used_percentage.den THEN "critical"
    ELSE IF used_percentage.num >= warning_threshold * used_percentage.den THEN "warning"
    ELSE "healthy"

Max(a, b) == IF a >= b THEN a ELSE b

\* get_real_time_costs
get_real_time_costs(rows, firm_id, now) ==
    LET todays == TodayRows(rows, firm_id, now)
        daily_cost == SumOf(todays, "total_cost")
        daily_tokens == SumOf(todays, "total_tokens")
        daily_requests == Len(todays)
        budget_used_pct == [num |-> daily_cost * 100, den |-> daily_budget]
        remaining_budget == Max(0, daily_budget - daily_cost)
    IN  [today |-> [cost |-> daily_cost, tokens |-> daily_tokens,
                    requests |-> daily_requests],
         budget |-> [daily_limit |-> daily_budget, used_amount |-> daily_cost,
                     remaining |-> remaining_budget,
                     used_percentage |-> budget_used_pct,
                     status |-> get_budget_status(budget_used_pct)],
         efficiency |-> [on_target |->
             daily_cost <= cost_target_per_doc * Max(daily_requests, 1)]]

\* get_usage_stats over [start_date, end_date]
get_usage_stats(rows, firm_id, start_date, end_date) ==
    LET selected == SelectRows(rows, firm_id, start_date, end_date)
        of_model(m) == SelectSeq(selected, LAMBDA r : r.model_name = m)
        models == {selected[i].model_name : i \in DOMAIN selected}
    IN  [summary |-> [total_tokens |-> SumOf(selected, "total_tokens"),
                      total_cost |-> SumOf(selected, "total_cost"),
                      total_requests |-> Len(selected)],
         model_breakdown |-> [m \in models |->
             [tokens |-> SumOf(of_model(m), "total_tokens"),
              cost |-> SumOf(of_model(m), "total_cost"),
              requests |-> Len(of_model(m))]]]

ReportDays == [daily |-> 1, weekly |-> 7, monthly |-> 30]

\* generate_cost_report: the usage stats of the period and the recommendations
generate_cost_report(rows, firm_id, report_type, now) ==
    LET usage_stats == get_usage_stats(rows, firm_id, now - ReportDays[report_type], now)
        summary == usage_stats.summary
        cost_of(m) == IF m \in DOMAIN usage_stats.model_breakdown
                      THEN usage_stats.model_breakdown[m].cost ELSE 0
    IN  [report_type |-> report_type, firm_id |-> firm_id, usage_stats |-> usage_stats,
         over_target |-> summary.total_cost >
                            cost_target_per_doc * Max(summary.total_requests, 1),
         claude_heavy |-> cost_of("claude-3-5-sonnet-20241022")
                            > cost_of("gpt-4o-mini") * 2]

LedgerInit ==
    /\ ledger = <<>>
    /\ today = 0
    /\ last = None

\* CostMonitor.log_token_usage.  After the commit and the budget check, the
\* logger.info line formats total_tokens, a name the function never binds:
\* NameError, caught by the except clause, logged and re-raised.
LogTokenUsage ==
    /\ Len(ledger) < MaxRows
    /\ \E firm_id \in Firms, user_id \in Users, service_name \in Services,
          model_name \in ModelNames, request_id \in RequestIds,
          commit_ok \in BOOLEAN, query_ok \in BOOLEAN :
       \E tokens \in ReportedTokenCounts(model_name) :
          LET input_tokens == tokens[1]
              output_tokens == tokens[2]
              model_config == model_pricing(model_name)
              input_cost == token_cost(input_tokens, model_config.cost_per_1k_input)
              output_cost == token_cost(output_tokens, model_config.cost_per_1k_output)
              total_cost == input_cost + output_cost
              usage_log == TokenUsageLog(firm_id, user_id, service_name, model_name,
                              input_tokens, output_tokens, input_tokens + output_tokens,
                              input_cost, output_cost, total_cost, request_id, today)
          IN  IF commit_ok
              THEN /\ ledger' = AddAndCommit(ledger, usage_log)
                   /\ last' = Some([op |-> "CostMonitor.log_token_usage",
                                    usage_log |-> usage_log, committed |-> TRUE,
                                    alert |-> check_budget_limits(ledger', firm_id,
                                                                  today, query_ok),
                                    outcome |-> "raised"])
              ELSE /\ ledger' = ledger
                   /\ last' = Some([op |-> "CostMonitor.log_token_usage",
                                    usage_log |-> usage_log, committed |-> FALSE,
                                    alert |-> "none", outcome |-> "raised"])
    /\ UNCHANGED <<today, routerVars, redactorVars, pipelineVars, callVars>>

\* <<input_cost, output_cost>> as a caller of database.log_token_usage passes
\* them: the two halves of a cost of 7.50 dollar, or its 3.00 + 4.50 split
CallerCosts == {<<375000, 375000>>, <<300000, 450000>>}

\* database.log_token_usage: the costs are the caller's
DbLogTokenUsage ==
    /\ Len(ledger) < MaxRows
    /\ \E firm_id \in Firms, user_id \in Users, service_name \in Services,
          costs \in CallerCosts, request_id \in RequestIds, commit_ok \in BOOLEAN :
          LET model_name == "claude-3-5-sonnet-20241022"
              input_tokens == 1000000
              output_tokens == 300000
              input_cost == costs[1]
              output_cost == costs[2]
              usage_log == TokenUsageLog(firm_id, user_id, service_name, model_name,
                              input_tokens, output_tokens, input_tokens + output_tokens,
                              input_cost, output_cost, input_cost + output_cost,
                              request_id, today)
          IN  IF commit_ok
              THEN /\ ledger' = AddAndCommit(ledger, usage_log)
                   /\ last' = Some([op |-> "database.log_token_usage",
                                    usage_log |-> usage_log, committed |-> TRUE,
                                    outcome |-> "returned"])
              ELSE /\ ledger' = ledger
                   /\ last' = Some([op |-> "database.log_token_usage",
                                    usage_log |-> usage_log, committed |-> FALSE,
                                    outcome |-> "raised"])
    /\ UNCHANGED <<today, routerVars, redactorVars, pipelineVars, callVars>>

\* get_real_time_costs(firm_id); any failure returns {}
GetRealTimeCosts ==
    /\ \E firm_id \in Firms, query_ok \in BOOLEAN :
          last' = Some([op |-> "get_real_time_costs", firm_id |-> firm_id,
                        ok |-> query_ok,
                        result |-> IF query_ok
                                   THEN Some(get_real_time_costs(ledger, firm_id, today))
                                   ELSE None])
    /\ UNCHANGED <<ledger, today, routerVars, redactorVars, pipelineVars, callVars>>

\* get_usage_stats(firm_id) with the default range of 30 days
GetUsageStats ==
    /\ \E firm_id \in Firms :
          last' = Some([op |-> "get_usage_stats", firm_id |-> firm_id,
                        result |-> get_usage_stats(ledger, firm_id,
                                                   today - ReportDays.monthly, today)])
    /\ UNCHANGED <<ledger, today, routerVars, redactorVars, pipelineVars, callVars>>

\* generate_cost_report(firm_id, report_type)
GenerateCostReport ==
    /\ \E firm_id \in Firms, report_type \in DOMAIN ReportDays :
          last' = Some([op |-> "generate_cost_report",
                        result |-> generate_cost_report(ledger, firm_id,
                                                        report_type, today)])
    /\ UNCHANGED <<ledger, today, routerVars, redactorVars, pipelineVars, callVars>>

\* midnight UTC passes
NewDay ==
    /\ today < MaxDay
    /\ today' = today + 1
    /\ UNCHANGED <<ledger, last, routerVars, redactorVars, pipelineVars, callVars>>

LedgerNext ==
    \/ LogTokenUsage
    \/ DbLogTokenUsage
    \/ GetRealTimeCosts
    \/ GetUsageStats
    \/ GenerateCostReport
    \/ NewDay

(***************************************************************************)
(* The two budget classifications in binary floating point.  The sums of   *)
(* the ledger are Python floats (IEEE 754 binary64), and next to a         *)
(* threshold the rounding of daily_spend / daily_budget and of the product *)
(* by 100 decides the comparison.  The doubles next to a threshold are     *)
(* written [pct |-> p, k |-> k], p being 80 or 95:                         *)
(*   as a spend, the k-th double above (below, for k < 0) p / 100 of the   *)
(*     daily budget of 10.0 dollar, that is above 8.0 or 9.5;              *)
(*   as a ratio, the k-th double above the double written 0.8 or 0.95;     *)
(*   as a percentage, the k-th double above 80.0 or 95.0.                  *)
(* Distances are counted in units of 2^-53, the spacing of the doubles of  *)
(* [0.5, 1): the doubles of [4, 8) are 8 units apart, those of [8, 16) 16  *)
(* units, those of [64, 128) 128 units.  The double written 0.8 lies 4     *)
(* tenths of a unit above 0.8, the double written 0.95 lies 4 tenths of a  *)
(* unit below 0.95.                                                        *)
(***************************************************************************)

\* the doubles taken on each side of a threshold spend
MaxUlps == 16

\* n / d rounded to the nearest integer, a tie to the even one: the rounding
\* of every binary64 operation
RoundHalfEven(n, d) ==
    LET q == n \div d
        r == n % d
    IN  IF 2 * r > d \/ (2 * r = d /\ q % 2 = 1) THEN q + 1 ELSE q

\* float(p / 100) - p / 100, in tenths of a unit
ThresholdError(pct) == IF pct = 80 THEN 4 ELSE -4

\* the distance of a spend from 8.0 or 9.5, in units
SpendUnits(daily_spend) ==
    IF daily_spend.pct = 80 /\ daily_spend.k < 0
    THEN 8 * daily_spend.k
    ELSE 16 * daily_spend.k

\* daily_spend / self.daily_budget: the exact quotient lies SpendUnits tenths
\* of a unit from p / 100, and the doubles there are 10 tenths apart
fdiv_daily_budget(daily_spend) ==
    [pct |-> daily_spend.pct,
     k   |-> RoundHalfEven(SpendUnits(daily_spend) - ThresholdError(daily_spend.pct), 10)]

\* ratio * 100: the exact product lies 100 * k units and 10 times the tenths
\* of the threshold error from p, and the doubles there are 128 units apart
fmul_100(ratio) ==
    [pct |-> ratio.pct,
     k   |-> RoundHalfEven(10 * ThresholdError(ratio.pct) + 100 * ratio.k, 128)]

\* x >= y for two doubles written this way
FloatGE(x, y) == IF x.pct = y.pct THEN x.k >= y.k ELSE x.pct > y.pct

\* self.warning_threshold = 0.8 and self.critical_threshold = 0.95 as doubles
warning_threshold_double == [pct |-> 80, k |-> 0]
critical_threshold_double == [pct |-> 95, k |-> 0]

\* _check_budget_limits from daily_spend on: budget_used_pct = daily_spend /
\* self.daily_budget, compared with the two thresholds
budget_alert_binary64(daily_spend) ==
    IF FloatGE(fdiv_daily_budget(daily_spend), critical_threshold_double) THEN "critical"
    ELSE IF FloatGE(fdiv_daily_budget(daily_spend), warning_threshold_double)
    THEN "warning"
    ELSE "none"

\* budget_used_pct = (daily_cost / self.daily_budget) * 100 of
\* get_real_time_costs
budget_used_pct(daily_cost) == fmul_100(fdiv_daily_budget(daily_cost))

\* _get_budget_status: used_percentage compared with the thresholds * 100
get_budget_status_binary64(used_percentage) ==
    IF FloatGE(used_percentage, fmul_100(critical_threshold_double)) THEN "critical"
    ELSE IF FloatGE(used_percentage, fmul_100(warning_threshold_double)) THEN "warning"
    ELSE "healthy"

\* The daily spends considered: the doubles next to the two threshold spends.
DailySpends == [pct : {80, 95}, k : -MaxUlps .. MaxUlps]

\* _check_budget_limits once the query has given daily_spend
CheckBudgetOfSpend ==
    /\ \E daily_spend \in DailySpends :
          last' = Some([op |-> "_check_budget_limits", daily_spend |-> daily_spend,
                        alert |-> budget_alert_binary64(daily_spend)])
    /\ UNCHANGED <<ledger, today, routerVars, redactorVars, pipelineVars, callVars>>

\* get_real_time_costs once the query has given daily_cost
StatusOfSpend ==
    /\ \E daily_cost \in DailySpends :
          last' = Some([op |-> "_get_budget_status", daily_spend |-> daily_cost,
                        used_percentage |-> budget_used_pct(daily_cost),
                        status |-> get_budget_status_binary64(
                                       budget_used_pct(daily_cost))])
    /\ UNCHANGED <<ledger, today, routerVars, redactorVars, pipelineVars, callVars>>

BudgetNext == CheckBudgetOfSpend \/ StatusOfSpend

(***************************************************************************)
(* Concurrent callers of CostMonitor.log_token_usage.  Each caller has its *)
(* own session; the coroutine gives up control at its awaits, so between   *)
(* the commit of one call and its budget check the commits and checks of   *)
(* the other calls, and status calls, can take place.                      *)
(***************************************************************************)

NumCallers == 2
Callers == 1 .. NumCallers

IdleCall == [pc |-> "idle"]

ConcurrentInit == inflight = [c \in Callers |-> IdleCall]

\* log_token_usage up to session.add(usage_log): pricing, costs, the row
StartLogTokenUsage(c) ==
    /\ inflight[c].pc = "idle"
    /\ \E firm_id \in Firms, user_id \in Users, service_name \in Services,
          tokens \in TokenCounts, request_id \in RequestIds :
          LET model_name == "claude-3-5-sonnet-20241022"
              model_config == model_pricing(model_name)
              input_cost == token_cost(tokens[1], model_config.cost_per_1k_input)
              output_cost == token_cost(tokens[2], model_config.cost_per_1k_output)
          IN  inflight' = [inflight EXCEPT ![c] =
                  [pc |-> "commit",
                   usage_log |-> TokenUsageLog(firm_id, user_id, service_name, model_name,
                                     tokens[1], tokens[2], tokens[1] + tokens[2],
                                     input_cost, output_cost, input_cost + output_cost,
                                     request_id, today)]]
    /\ UNCHANGED <<ledgerVars, routerVars, redactorVars, pipelineVars>>

\* await session.commit(): the row is in the table, or the commit fails and
\* the except clause re-raises
CommitUsageLog(c) ==
    /\ inflight[c].pc = "commit"
    /\ \E commit_ok \in BOOLEAN :
          IF commit_ok
          THEN /\ ledger' = AddAndCommit(ledger, inflight[c].usage_log)
               /\ inflight' = [inflight EXCEPT ![c] =
                       [pc |-> "check", usage_log |-> inflight[c].usage_log,
                        committed |-> TRUE]]
          ELSE /\ ledger' = ledger
               /\ inflight' = [inflight EXCEPT ![c] =
                       [pc |-> "done", usage_log |-> inflight[c].usage_log,
                        committed |-> FALSE, outcome |-> "raised"]]
    /\ UNCHANGED <<today, last, routerVars, redactorVars, pipelineVars>>

\* await self._check_budget_limits(session, firm_id, total_cost): the sum
\* query over the table as it is now; daily_spend is None when it fails
CheckBudgetLimits(c) ==
    /\ inflight[c].pc = "check"
    /\ \E query_ok \in BOOLEAN :
          inflight' = [inflight EXCEPT ![c] =
              [pc |-> "log", usage_log |-> inflight[c].usage_log, committed |-> TRUE,
               daily_spend |->
                   IF query_ok
                   THEN Some(SumOf(TodayRows(ledger, inflight[c].usage_log.firm_id, today),
                                   "total_cost"))
                   ELSE None,
               alert |-> check_budget_limits(ledger, inflight[c].usage_log.firm_id,
                                             today, query_ok)]]
    /\ UNCHANGED <<ledgerVars, routerVars, redactorVars, pipelineVars>>

\* the logger.info line behind the check: NameError on total_tokens, re-raised
RaiseFromLogLine(c) ==
    /\ inflight[c].pc = "log"
    /\ inflight' = [inflight EXCEPT ![c] =
           [pc |-> "done", usage_log |-> inflight[c].usage_log, committed |-> TRUE,
            daily_spend |-> inflight[c].daily_spend, alert |-> inflight[c].alert,
            outcome |-> "raised"]]
    /\ UNCHANGED <<ledgerVars, routerVars, redactorVars, pipelineVars>>

ConcurrentNext ==
    \/ \E c \in Callers : StartLogTokenUsage(c)
    \/ \E c \in Callers : CommitUsageLog(c)
    \/ \E c \in Callers : CheckBudgetLimits(c)
    \/ \E c \in Callers : RaiseFromLogLine(c)
    \/ GetRealTimeCosts

(***************************************************************************)
(* The processing paths: every handler of the repository that hands a      *)
(* request's text to execute_routed_request.  The request text is the one  *)
(* composed by TypeSegment.                                                *)
(***************************************************************************)

PipelineInit ==
    /\ external = <<>>
    /\ response = None
    /\ logged = <<>>

\* result["usage"] as the model's API reports it
ReportedUsage == {[input_tokens |-> 1000, output_tokens |-> 100]}

\* how an external execution ends: with the usage it reports, or (None) with
\* the exception of a request that did not complete
ExecutionOutcomes == {None} \cup {Some(u) : u \in ReportedUsage}

\* execute_routed_request(task_type, content, ...): the content leaves the
\* process; usage is what the execution reported, None if it did not complete
execute_routed_request(calls, handler, task_type, request_text, content, usage) ==
    Append(calls, [handler |-> handler, task_type |-> task_type,
                   request_text |-> request_text, content |-> content,
                   usage |-> usage])

\* main.py: the task type each analysis function asks the router for
AnalysisTaskType ==
    [classification     |-> "document_classification",
     medical_extraction |-> "medical_summarization",
     legal_analysis     |-> "legal_reasoning",
     case_merit         |-> "case_merit_analysis"]

AnalysisTypes == DOMAIN AnalysisTaskType \cup {"unsupported"}

\* main.py: the max_tokens each analysis function asks for
AnalysisMaxTokens ==
    [classification |-> 200, medical_extraction |-> 800,
     legal_analysis |-> 1000, case_merit |-> 1200]

\* a background task that logs the requested max_tokens as the usage
log_usage_in_background_Requested(rows, firm_id, analysis_type, usage, now) ==
    Append(rows, TokenUsageLog(firm_id, 1, analysis_type, "unknown",
                               0, AnalysisMaxTokens[analysis_type],
                               AnalysisMaxTokens[analysis_type], 0, 0, 0, "unknown", now))

\* main.analyze_document, "Log token usage in background": the arguments of
\* background_tasks.add_task are evaluated first, and one of them reads
\* request.state of a name the function never binds.  The NameError comes
\* before add_task is called: no task is added and no row is written.
log_usage_in_background(rows, firm_id, analysis_type, usage, now) == rows

\* a request text arrives, segment by segment
ReceiveSegment ==
    /\ response = None
    /\ TypeSegment

\* main.analyze_document, logger.warning("PHI detected and redacted",
\* document_id=..., phi_count=phi_audit["redaction_count"]), written when
\* phi_audit["phi_detected"]
RedactionLogLines(phi_audit) ==
    IF phi_audit.phi_detected
    THEN <<[level |-> "warning", event |-> "PHI detected and redacted",
            phi_count |-> phi_audit.redaction_count]>>
    ELSE <<>>

\* the logger.error line of a handler's except clause: the event and the
\* exception it names
FailureLogLine(event, error) ==
    [level |-> "error", event |-> event, error |-> error]

\* the exception analyze_document ends with
AnalyzeDocumentError(analysis_type, usage) ==
    IF analysis_type \notin DOMAIN AnalysisTaskType THEN "HTTPException(400)"
    ELSE IF usage = None THEN "HTTPException(500)"
    ELSE "NameError"

\* the lines a service method writes: the one of its except clause when the
\* execution did not complete
ServiceLogLines(event, usage) ==
    IF usage = None THEN <<FailureLogLine(event, "HTTPException(500)")>> ELSE <<>>

\* main.analyze_document.  An execution that fails raises; one that completes
\* returns a result that holds "usage", and logging it raises NameError (see
\* log_usage_in_background).  The except clause turns both into HTTP 500, as
\* it does the HTTPException(400) of an unsupported analysis type.
\* current_user is the firm 1 of get_current_user.
AnalyzeDocument ==
    /\ response = None
    /\ LET safe == safe_for_ai_processing(text)
       IN  \E analysis_type \in AnalysisTypes, usage \in ExecutionOutcomes :
              /\ external' =
                    IF analysis_type \in DOMAIN AnalysisTaskType
                    THEN execute_routed_request(external, "analyze_document",
                             AnalysisTaskType[analysis_type], text, safe.content, usage)
                    ELSE external
              /\ ledger' =
                    IF analysis_type \in DOMAIN AnalysisTaskType /\ usage # None
                    THEN log_usage_in_background(ledger, 1, analysis_type, The(usage), today)
                    ELSE ledger
              /\ response' = Some([handler |-> "analyze_document", status_code |-> 500,
                                   status |-> "error",
                                   phi_audit |-> Some(safe.phi_audit)])
              /\ logged' = logged \o RedactionLogLines(safe.phi_audit)
                               \o <<FailureLogLine("Document analysis failed",
                                        AnalyzeDocumentError(analysis_type, usage))>>
    /\ UNCHANGED <<today, last, routerVars, redactorVars, callVars>>

\* what a service method returns: the response it builds when the execution
\* completed, the "failed" dictionary of its except clause when it did not
ServiceResponse(handler, usage, phi_audit) ==
    IF usage # None
    THEN [handler |-> handler, status_code |-> 200, status |-> "completed",
          phi_audit |-> phi_audit]
    ELSE [handler |-> handler, status_code |-> 200, status |-> "failed",
          phi_audit |-> None]

\* DocumentClassifier.classify_document(content, document_id, use_phi_redaction):
\* redact if use_phi_redaction, then execute
ClassifyDocument ==
    /\ response = None
    /\ LET safe == safe_for_ai_processing(text)
       IN  \E use_phi_redaction \in BOOLEAN, usage \in ExecutionOutcomes :
              /\ external' = execute_routed_request(external, "classify_document",
                                  "document_classification", text,
                                  IF use_phi_redaction THEN safe.content ELSE text, usage)
              /\ response' = Some(ServiceResponse("classify_document", usage,
                                  IF use_phi_redaction THEN Some(safe.phi_audit) ELSE None))
              /\ logged' = logged \o ServiceLogLines("Document classification failed", usage)
    /\ UNCHANGED <<routerVars, redactorVars, ledgerVars, callVars>>

\* LegalAnalyzer.analyze_legal_document(content, document_id, ..., use_phi_redaction)
AnalyzeLegalDocument ==
    /\ response = None
    /\ LET safe == safe_for_ai_processing(text)
       IN  \E use_phi_redaction \in BOOLEAN, usage \in ExecutionOutcomes :
              /\ external' = execute_routed_request(external, "analyze_legal_document",
                                  "legal_reasoning", text,
                                  IF use_phi_redaction THEN safe.content ELSE text, usage)
              /\ response' = Some(ServiceResponse("analyze_legal_document", usage,
                                  IF use_phi_redaction THEN Some(safe.phi_audit) ELSE None))
              /\ logged' = logged \o ServiceLogLines("Legal document analysis failed", usage)
    /\ UNCHANGED <<routerVars, redactorVars, ledgerVars, callVars>>

\* MedicalProcessor.extract_medical_information(content, ..., use_phi_redaction),
\* which redacts with medical_phi_redactor
ExtractMedicalInformation ==
    /\ response = None
    /\ LET safe == medical_safe_for_ai_processing(text)
       IN  \E use_phi_redaction \in BOOLEAN, usage \in ExecutionOutcomes :
              /\ external' = execute_routed_request(external, "extract_medical_information",
                                  "medical_summarization", text,
                                  IF use_phi_redaction THEN safe.content ELSE text, usage)
              /\ response' = Some(ServiceResponse("extract_medical_information", usage,
                                  IF use_phi_redaction THEN Some(safe.phi_audit) ELSE None))
              /\ logged' = logged \o ServiceLogLines("Medical information extraction failed", usage)
    /\ UNCHANGED <<routerVars, redactorVars, ledgerVars, callVars>>

CaseFactsHeading == <<"\n", "C", "A", "S", "E", " ", "F", "A", "C", "T", "S", ":", "\n">>

\* _prepare_case_summary of a case_data that holds case_facts only
prepare_case_summary(case_facts) ==
    IF case_facts = <<>> THEN <<>> ELSE CaseFactsHeading \o case_facts

\* CaseMeritAnalyzer._conduct_ai_merit_analysis(case_data): no redactor is called
ConductAiMeritAnalysis ==
    /\ response = None
    /\ \E usage \in ExecutionOutcomes :
          /\ external' = execute_routed_request(external, "conduct_ai_merit_analysis",
                              "case_merit_analysis", text, prepare_case_summary(text),
                              usage)
          /\ response' = Some(ServiceResponse("conduct_ai_merit_analysis", usage, None))
          /\ logged' = logged \o ServiceLogLines("AI merit analysis failed", usage)
    /\ UNCHANGED <<routerVars, redactorVars, ledgerVars, callVars>>

PipelineNext ==
    \/ ReceiveSegment
    \/ AnalyzeDocument
    \/ ClassifyDocument
    \/ AnalyzeLegalDocument
    \/ ExtractMedicalInformation
    \/ ConductAiMeritAnalysis

Init ==
    /\ RouterInit
    /\ RedactorInit
    /\ LedgerInit
    /\ PipelineInit
    /\ ConcurrentInit

SpecRouter == Init /\ [][RouterNext]_vars

SpecRedactor == Init /\ [][RedactorNext]_vars

SpecLedger == Init /\ [][LedgerNext]_vars

SpecPipeline == Init /\ [][PipelineNext]_vars

SpecConcurrent == Init /\ [][ConcurrentNext]_vars

SpecBudget == Init /\ [][BudgetNext]_vars

(***************************************************************************)
(* Properties of the router (SpecRouter)                                   *)
(***************************************************************************)

\* C1: for every task type of the forced set (case_merit_analysis,
\* legal_reasoning, liability_assessment), every content and every hints
\* value, route_request selects the high-capability model, whatever the
\* complexity score is.
C1_ForcedTaskSelectsHighCapability ==
    (decision # None
        /\ The(rreq).task_type \in {"case_merit_analysis", "legal_reasoning",
                                    "liability_assessment"})
    => The(decision).selected_model = CLAUDE_3_5_SONNET

\* a forced task with a content of 10 characters, no bonus and no hint, whose
\* score does not exceed the threshold, was routed to the high-capability model
C1_Witness ==
    /\ decision # None
    /\ The(rreq).task_type = "liability_assessment"
    /\ The(rreq).content.len = 10
    /\ The(rreq).content.legal_matches = 0
    /\ The(rreq).content.medical_matches = 0
    /\ The(rreq).context = NoContext
    /\ analyze_request_complexity(The(rreq).task_type, The(rreq).content,
                                  The(rreq).context) <= cost_threshold_complex
    /\ The(decision).selected_model = CLAUDE_3_5_SONNET

\* C2: route_request selects the cost-efficient model if and only if the task
\* type is not forced, the score is not strictly greater than the threshold
\* and the content has at most 100,000 characters; a non-forced request with
\* a score within the threshold and more than 100,000 characters gets the
\* high-capability model with the reasoning that cites the context window.
C2_FirstMatchWins ==
    decision # None =>
        LET forced == The(rreq).task_type \in {"case_merit_analysis", "legal_reasoning",
                                               "liability_assessment"}
            score  == analyze_request_complexity(The(rreq).task_type, The(rreq).content,
                                                 The(rreq).context)
            large  == The(rreq).content.len > 100000
        IN  /\ (The(decision).selected_model = GPT_4O_MINI)
                  <=> (~forced /\ score <= cost_threshold_complex /\ ~large)
            /\ (~forced /\ score <= cost_threshold_complex /\ large)
                  => /\ The(decision).selected_model = CLAUDE_3_5_SONNET
                     /\ The(decision).reasoning =
                            <<"Large document requires extended context window">>

\* a non-forced request within the threshold and of more than 100,000
\* characters was routed to the high-capability model for its length
C2_Witness ==
    /\ decision # None
    /\ The(rreq).task_type = "document_classification"
    /\ The(rreq).content.len > 100000
    /\ analyze_request_complexity(The(rreq).task_type, The(rreq).content,
                                  The(rreq).context) <= cost_threshold_complex
    /\ The(decision).selected_model = CLAUDE_3_5_SONNET
    /\ The(decision).reasoning = LargeDocumentReasoning

(***************************************************************************)
(* Properties of the processing paths (SpecPipeline)                       *)
(***************************************************************************)

\* the content a handler would hand over had it redacted the request text
RedactedContentFor(call) ==
    CASE call.handler = "conduct_ai_merit_analysis"
            -> prepare_case_summary(safe_for_ai_processing(call.request_text).content)
      [] call.handler = "extract_medical_information"
            -> medical_safe_for_ai_processing(call.request_text).content
      [] OTHER -> safe_for_ai_processing(call.request_text).content

\* C3: on every processing path, the content handed to execute_routed_request
\* is the output of PHI redaction of the request's text, never the raw text.
C3_RedactionPrecedesExecution ==
    \A i \in DOMAIN external : external[i].content = RedactedContentFor(external[i])

(***************************************************************************)
(* Properties of the redactor (SpecRedactor)                               *)
(***************************************************************************)

\* the token tok stands in t at position q
OccursAt(t, tok, q) ==
    /\ q + Len(tok) <= Len(t)
    /\ SubSeq(t, q + 1, q + Len(tok)) = tok

\* C4: detection run again on redact_text(T).redacted_text finds no match
\* whose matched substring is not (part of) an emitted replacement token.
C4_NoIdentifierSurvives ==
    redetected # None =>
        LET result == The(redaction).result
            rt     == result.redacted_text
        IN  \A i \in DOMAIN The(redetected) :
                \E j \in DOMAIN result.redactions_made, q \in 0 .. Len(rt) :
                    /\ OccursAt(rt, result.redactions_made[j].replacement, q)
                    /\ q <= The(redetected)[i].start
                    /\ The(redetected)[i].end <= q + Len(result.redactions_made[j].replacement)

\* C5: for every text in which detection finds no identifier (the empty text
\* included), redact_text returns the text character for character, an empty
\* list of redactions and phi_detected = False.
C5_CleanTextUnchanged ==
    (redaction # None /\ detect_phi(text) = <<>>)
    => /\ The(redaction).result.redacted_text = text
       /\ The(redaction).result.redactions_made = <<>>
       /\ The(redaction).result.phi_detected = FALSE

\* a non-empty text without identifier (a name exception included) was redacted
C5_Witness ==
    /\ redaction # None
    /\ Len(text) > 3
    /\ detect_phi(text) = <<>>
    /\ The(redaction).result.redacted_text = text

\* C6: the replacement token is a function of the original matched text: equal
\* originals of one type get the same token wherever they stand in the text,
\* and two different originals never get the same token.
C6_TokenFunctionOfOriginal ==
    redaction # None =>
        LET made == The(redaction).result.redactions_made
        IN  \A i, j \in DOMAIN made :
                /\ (made[i].type = made[j].type /\ made[i].original = made[j].original)
                      => made[i].replacement = made[j].replacement
                /\ made[i].original # made[j].original
                      => made[i].replacement # made[j].replacement

\* one text held the same name twice and another name: the two occurrences
\* got one token, the other name a different token
C6_Witness ==
    /\ redaction # None
    /\ LET made == The(redaction).result.redactions_made
       IN  /\ \E i, j \in DOMAIN made :
                 /\ i # j
                 /\ made[i].type = made[j].type
                 /\ made[i].original = made[j].original
                 /\ made[i].start # made[j].start
                 /\ made[i].replacement = made[j].replacement
           /\ \E i, j \in DOMAIN made :
                 /\ made[i].type = made[j].type
                 /\ made[i].original # made[j].original
                 /\ made[i].replacement # made[j].replacement

(***************************************************************************)
(* Properties of the usage ledger (SpecLedger)                             *)
(***************************************************************************)

C8_CostsFromPricingTable ==
    \A i \in DOMAIN ledger :
        /\ ledger[i].input_cost + ledger[i].output_cost = ledger[i].total_cost
        /\ ledger[i].input_cost =
              token_cost(ledger[i].input_tokens,
                         model_pricing(ledger[i].model_name).cost_per_1k_input)
        /\ ledger[i].output_cost =
              token_cost(ledger[i].output_tokens,
                         model_pricing(ledger[i].model_name).cost_per_1k_output)

\* C9: CostMonitor.log_token_usage called with a model that is not in the
\* pricing table prices it at the default (0.001 / 0.002 dollar per 1000
\* tokens), appends the row and completes without error, returning the row.
C9_UnregisteredModelCompletes ==
    (/\ last # None
     /\ The(last).op = "CostMonitor.log_token_usage"
     /\ The(last).usage_log.model_name = UNREGISTERED_MODEL
     /\ The(last).committed)
    => /\ The(last).usage_log.input_cost
             = (The(last).usage_log.input_tokens \div 1000) * 100
       /\ The(last).usage_log.output_cost
             = (The(last).usage_log.output_tokens \div 1000) * 200
       /\ ledger # <<>>
       /\ ledger[Len(ledger)] = The(last).usage_log
       /\ The(last).outcome = "returned"

\* C10: the ledger is append-only: no operation updates or deletes a row;
\* every step leaves every row in place with the values it had.
C10_AppendOnly ==
    [][/\ Len(ledger') >= Len(ledger)
       /\ \A i \in DOMAIN ledger : ledger'[i] = ledger[i]]_vars

\* reports were generated over a ledger of several rows written on two days
C10_Witness ==
    /\ Len(ledger) = MaxRows
    /\ ledger[1].created_at # ledger[MaxRows].created_at
    /\ last # None
    /\ The(last).op = "generate_cost_report"

\* the total_cost of the rows the callers have committed for the firm
RECURSIVE CommittedSpend(_, _, _)
CommittedSpend(cs, c, firm_id) ==
    IF c = 0 THEN 0
    ELSE (IF /\ cs[c].pc \in {"check", "log", "done"}
             /\ cs[c].committed
             /\ cs[c].usage_log.firm_id = firm_id
          THEN cs[c].usage_log.total_cost ELSE 0)
         + CommittedSpend(cs, c - 1, firm_id)

\* C11: under every interleaving of concurrent log_token_usage calls, the
\* spend a budget evaluation works from (the daily_spend of a call's budget
\* check, the used_amount of a status call) is the sum of total_cost of all
\* the rows committed for the firm so far: no committed row is lost.
C11_NoLostUpdate ==
    [][/\ \A c \in Callers :
            (/\ inflight[c].pc = "check"
             /\ inflight'[c].pc = "log"
             /\ inflight'[c].daily_spend # None)
            => The(inflight'[c].daily_spend)
                  = CommittedSpend(inflight', NumCallers, inflight[c].usage_log.firm_id)
       /\ (/\ last' # last
           /\ last' # None
           /\ The(last').op = "get_real_time_costs"
           /\ The(last').ok)
          => The(The(last').result).budget.used_amount
                = CommittedSpend(inflight, NumCallers, The(last').firm_id)]_vars

\* caller 1 committed first, caller 2 committed a different row for the same
\* firm before caller 1 ran its budget check, and that check summed both rows
C11_Witness ==
    /\ Len(ledger) = 2
    /\ inflight[1].pc = "log"
    /\ inflight[2].pc = "check"
    /\ ledger[1] = inflight[1].usage_log
    /\ ledger[2] = inflight[2].usage_log
    /\ ledger[1].firm_id = ledger[2].firm_id
    /\ ledger[1].total_cost # ledger[2].total_cost
    /\ inflight[1].daily_spend = Some(ledger[1].total_cost + ledger[2].total_cost)

(***************************************************************************)
(* Properties of the request pipeline and the ledger (SpecPipeline)        *)
(***************************************************************************)

\* the row records the usage the execution of the call reported
RecordsUsageOf(row, call) ==
    /\ call.usage # None
    /\ row.input_tokens = The(call.usage).input_tokens
    /\ row.output_tokens = The(call.usage).output_tokens

\* C12: no row of the ledger is written for a request whose external
\* execution did not complete: every row belongs to a completed execution
\* and holds the token counts that execution reported.
C12_RowsOnlyFromCompletedExecutions ==
    \A i \in DOMAIN ledger : \E j \in DOMAIN external : RecordsUsageOf(ledger[i], external[j])

\* analyze_document answered a request whose execution did not complete,
\* and the ledger holds no row
C12_Witness ==
    /\ response # None
    /\ The(response).handler = "analyze_document"
    /\ Len(external) = 1
    /\ external[1].usage = None
    /\ ledger = <<>>

\* C13: every request whose external execution completed and reported usage
\* ends with a usage row for it in the ledger and with its result returned
\* to the caller.
C13_CompletedExecutionIsRecorded ==
    (response # None /\ external # <<>> /\ external[Len(external)].usage # None)
    => /\ \E i \in DOMAIN ledger : RecordsUsageOf(ledger[i], external[Len(external)])
       /\ The(response).status = "completed"

(***************************************************************************)
(* Failures around the ledger (SpecLedger)                                 *)
(***************************************************************************)

\* C14: a failure of the aggregate spend query never fails the caller: when
\* it fails in the budget check behind an append, log_token_usage still
\* returns the appended row and the row stays in the ledger; when it fails
\* in a status call, the call returns without a status instead of raising.
C14_QueryFailureDoesNotFailCaller ==
    /\ (/\ last # None
        /\ The(last).op = "CostMonitor.log_token_usage"
        /\ The(last).committed
        /\ The(last).alert = "check_failed")
       => /\ The(last).outcome = "returned"
          /\ \E i \in DOMAIN ledger : ledger[i] = The(last).usage_log
    /\ (/\ last # None
        /\ The(last).op = "get_real_time_costs"
        /\ ~The(last).ok)
       => The(last).result = None

\* C15: whenever CostMonitor.log_token_usage raises to its caller, it has
\* committed no row of that call, so that a retry after the failure does not
\* count the usage a second time.
C15_RaiseMeansNothingCommitted ==
    (/\ last # None
     /\ The(last).op = "CostMonitor.log_token_usage"
     /\ The(last).outcome = "raised")
    => ~The(last).committed

(***************************************************************************)
(* The router's score, estimate and determinism (SpecRouter)               *)
(***************************************************************************)

\* C16: the complexity score analyze_request_complexity returns lies in
\* [0, 1] (0..100 hundredths) for every task type, listed or not, every
\* content, the empty one included, and every combination of hints.
C16_ScoreInUnitInterval ==
    rreq # None =>
        LET complexity_score ==
                analyze_request_complexity(The(rreq).task_type, The(rreq).content,
                                           The(rreq).context)
        IN  0 <= complexity_score /\ complexity_score <= 100

\* A request whose contributions add up to more than 1.0 (0.9 for the task
\* and 0.5 for the three hints) has been routed with the score 1.0.
C16_Witness ==
    /\ decision # None
    /\ The(rreq).task_type = "case_merit_analysis"
    /\ The(rreq).content.len = 0
    /\ The(rreq).context.requires_reasoning
    /\ The(rreq).context.multi_step_analysis
    /\ The(rreq).context.high_stakes
    /\ The(decision).reasoning = HighComplexityReasoning(100)

\* C19: in every routing decision, estimated_cost is (estimated input
\* tokens / 1000) x cost_per_1k_input + (max_output_tokens / 1000) x
\* cost_per_1k_output, both prices read from the pricing entry of the model
\* the decision selected and never from the other model's entry.
C19_EstimateFromSelectedEntry ==
    decision # None =>
        LET selected     == The(decision).selected_model
            price_in     == IF selected = GPT_4O_MINI THEN 15 ELSE 300
            price_out    == IF selected = GPT_4O_MINI THEN 60 ELSE 1500
            input_tokens == The(decision).token_estimate - The(rreq).max_output_tokens
        IN  /\ selected \in {GPT_4O_MINI, CLAUDE_3_5_SONNET}
            /\ price_in = MODEL_ROUTING_CONFIG[selected].cost_per_1k_input
            /\ price_out = MODEL_ROUTING_CONFIG[selected].cost_per_1k_output
            /\ input_tokens = estimate_tokens(The(rreq).content, selected)
            /\ The(decision).estimated_cost =
                   input_tokens * price_in + The(rreq).max_output_tokens * price_out

\* A 100-character liability assessment with 1000 output tokens went to
\* Claude: 28 input tokens at 0.003 and 1000 output tokens at 0.015 per 1000.
C19_Witness ==
    /\ decision # None
    /\ The(rreq).task_type = "liability_assessment"
    /\ The(rreq).content.len = 100
    /\ The(rreq).max_output_tokens = 1000
    /\ The(decision).selected_model = CLAUDE_3_5_SONNET
    /\ The(decision).token_estimate = 1028
    /\ The(decision).estimated_cost = 28 * 300 + 1000 * 1500

C17_RedactorNeverRaises == failure = None

\* the report says what n detected matches call for
ReportFor(report, n) ==
    /\ report.compliant <=> (n = 0)
    /\ (n = 0) => report.risk_level = "low"
    /\ (1 <= n /\ n <= 5) => report.risk_level = "medium"
    /\ (n > 5) => report.risk_level = "high"

\* C18: check_compliance reports compliant exactly when detection finds no
\* match, and the risk level low for 0 matches, medium for 1 to 5 matches
\* and high for more than 5.
C18_ReportFollowsMatchCount ==
    compliance # None => ReportFor(The(compliance), Len(detect_phi(text)))

\* A text with exactly five matches was reported as a medium risk.
C18_Witness ==
    /\ compliance # None
    /\ The(compliance).phi_count = 5
    /\ Len(detect_phi(text)) = 5
    /\ ~The(compliance).compliant
    /\ The(compliance).risk_level = "medium"

(***************************************************************************)
(* The router's reasoning, token estimate, length tiers and configured     *)
(* use cases (SpecRouter)                                                  *)
(***************************************************************************)

\* C23: when the first rule selects the high-capability model, the reasoning
\* records which condition fired: a decision made for a forced task type and
\* a decision made for a score above the threshold, of a task type that is
\* not forced, never carry the same reasoning.
C23_ReasoningTellsCausesApart ==
    (/\ decision # None
     /\ routed # None
     /\ The(rreq).task_type \in {"case_merit_analysis", "legal_reasoning",
                                 "liability_assessment"}
     /\ The(routed).request.task_type \notin {"case_merit_analysis", "legal_reasoning",
                                              "liability_assessment"}
     /\ The(routed).decision.selected_model = CLAUDE_3_5_SONNET
     /\ The(routed).request.content.len <= 100000)
    => The(decision).reasoning # The(routed).decision.reasoning

\* C24: for a request routed to the high-capability model, the estimated
\* input token count is len(content) / 3.5 rounded to the nearest integer
\* (no length is halfway between two integers).
C24_ClaudeEstimateIsRounded ==
    (decision # None /\ The(decision).selected_model = CLAUDE_3_5_SONNET)
    => The(decision).token_estimate - The(rreq).max_output_tokens
           = (20 * The(rreq).content.len + 35) \div 70

\* the bonus of the highest of the three thresholds that n strictly exceeds
HighestTierBonus(n) ==
    LET tiers    == {<<10000, 10>>, <<20000, 20>>, <<50000, 30>>}
        exceeded == {t \in tiers : n > t[1]}
        highest  == CHOOSE t \in exceeded : \A u \in exceeded : u[1] <= t[1]
    IN  highest[2]

\* the score of a request whose length bonus is bonus
ScoreWithLengthBonus(r, bonus) ==
    LET sum == task_complexity(r.task_type) + bonus
               + (IF r.content.legal_matches >= 3 THEN 20 ELSE 0)
               + (IF r.content.medical_matches >= 3 THEN 10 ELSE 0)
               + (IF r.context.requires_reasoning THEN 20 ELSE 0)
               + (IF r.context.multi_step_analysis THEN 20 ELSE 0)
               + (IF r.context.high_stakes THEN 10 ELSE 0)
    IN  IF sum > 100 THEN 100 ELSE sum

\* C25: for a content longer than 10,000 characters the score holds exactly
\* one length bonus, that of the highest threshold the length strictly
\* exceeds (0.1, 0.2 or 0.3), never a sum of tier bonuses, and the legal and
\* medical term bonuses are added whatever the tier.
C25_ExactlyOneLengthTier ==
    (decision # None /\ The(rreq).content.len > 10000)
    => /\ analyze_request_complexity(The(rreq).task_type, The(rreq).content,
                                     The(rreq).context)
              = ScoreWithLengthBonus(The(rreq), HighestTierBonus(The(rreq).content.len))
       /\ The(decision).reasoning # LargeDocumentReasoning
              => The(decision).reasoning[2]
                     = ScoreWithLengthBonus(The(rreq),
                                            HighestTierBonus(The(rreq).content.len))

\* A document classification of 50,001 characters with three legal terms was
\* scored 0.2 + 0.3 + 0.2 = 0.7: one tier bonus, and the legal bonus with it.
C25_Witness ==
    /\ decision # None
    /\ The(rreq).task_type = "document_classification"
    /\ The(rreq).content.len = 50001
    /\ The(rreq).content.legal_matches = 3
    /\ The(rreq).content.medical_matches = 0
    /\ The(rreq).context = NoContext
    /\ The(decision).reasoning = StandardReasoning(70)

\* C30: the routing agrees with the use_cases of the pricing table: a task
\* type listed for the high-capability model goes to that model for every
\* content and hints, and a task type listed for the cost-efficient model
\* goes to that model when the content has at most 10,000 characters, no
\* domain-term bonus and no hints.
C30_RoutingAgreesWithUseCases ==
    decision # None =>
        /\ The(rreq).task_type \in MODEL_ROUTING_CONFIG[CLAUDE_3_5_SONNET].use_cases
               => The(decision).selected_model = CLAUDE_3_5_SONNET
        /\ (/\ The(rreq).task_type \in MODEL_ROUTING_CONFIG[GPT_4O_MINI].use_cases
            /\ The(rreq).content.len <= 10000
            /\ The(rreq).content.legal_matches < 3
            /\ The(rreq).content.medical_matches < 3
            /\ The(rreq).context = NoContext)
               => The(decision).selected_model = GPT_4O_MINI

(***************************************************************************)
(* Validation of reported usage and isolation of firms (SpecLedger)        *)
(***************************************************************************)

\* C27: usage data is validated defensively: whatever token counts a call of
\* log_token_usage is given, negative ones included, the call does not raise
\* and every row of the ledger has a non-negative input_cost and
\* output_cost, so that no append lowers a firm's spend.
C27_NegativeCountsAreValidated ==
    /\ \A i \in DOMAIN ledger : ledger[i].input_cost >= 0 /\ ledger[i].output_cost >= 0
    /\ (/\ last # None
        /\ The(last).op = "CostMonitor.log_token_usage"
        /\ The(last).usage_log.input_tokens < 0)
       => The(last).outcome = "returned"

\* what the ledger's readers give for firm_id
FirmView(rows, firm_id, now) ==
    [spend  |-> SumOf(TodayRows(rows, firm_id, now), "total_cost"),
     alert  |-> check_budget_limits(rows, firm_id, now, TRUE),
     costs  |-> get_real_time_costs(rows, firm_id, now),
     stats  |-> get_usage_stats(rows, firm_id, now - ReportDays.monthly, now),
     report |-> generate_cost_report(rows, firm_id, "daily", now)]

\* C29: firms are isolated in the ledger: a step that appends a row of one
\* firm changes neither the spend, nor the budget alert and status, nor the
\* usage statistics and report computed for any other firm.
C29_FirmsAreIsolated ==
    [][\A firm_id \in Firms :
          (/\ Len(ledger') = Len(ledger) + 1
           /\ ledger'[Len(ledger')].firm_id # firm_id)
          => FirmView(ledger', firm_id, today') = FirmView(ledger, firm_id, today)]_vars

\* Firm 1 has a row, a row of firm 2 was appended behind it, and the status
\* call for firm 1 still counts one request and the cost of firm 1's row.
C29_Witness ==
    /\ Len(ledger) = 2
    /\ ledger[1].firm_id = 1
    /\ ledger[2].firm_id = 2
    /\ ledger[1].created_at = today
    /\ ledger[2].created_at = today
    /\ ledger[2].total_cost > 0
    /\ last # None
    /\ The(last).op = "get_real_time_costs"
    /\ The(last).firm_id = 1
    /\ The(last).ok
    /\ The(The(last).result).today.requests = 1
    /\ The(The(last).result).today.cost = ledger[1].total_cost

(***************************************************************************)
(* Agreement of the two budget classifications (SpecBudget)                *)
(***************************************************************************)

\* the alert of the budget check and the status of the status call name the
\* same level
SameLevel(alert, status) ==
    \/ alert = "critical" /\ status = "critical"
    \/ alert = "warning" /\ status = "warning"
    \/ alert = "none" /\ status = "healthy"

\* C28: the two places that classify a firm's spend agree: for every daily
\* spend, the budget check behind an append (spend / budget against 0.95 and
\* 0.8) raises the critical, the warning or no alert exactly when the status
\* call (the percentage against 95 and 80) gives critical, warning or
\* healthy for the same spend.
C28_AlertAndStatusAgree ==
    /\ (last # None /\ The(last).op = "_check_budget_limits")
       => SameLevel(The(last).alert,
                    get_budget_status_binary64(budget_used_pct(The(last).daily_spend)))
    /\ (last # None /\ The(last).op = "_get_budget_status")
       => SameLevel(budget_alert_binary64(The(last).daily_spend), The(last).status)

(***************************************************************************)
(* Substitution of matches that do not overlap (SpecRedactor)              *)
(***************************************************************************)

\* no two of the redactions share a character of the text
NonOverlapping(made) ==
    \A i, j \in DOMAIN made :
        i # j => (made[i].end <= made[j].start \/ made[j].end <= made[i].start)

\* what stands in place of one match: its token, padded to the length of the
\* match where the structure is preserved and the token is shorter
SubstituteOf(info, preserve_structure) ==
    IF preserve_structure /\ Len(info.replacement) < Len(info.original)
    THEN info.replacement \o [i \in 1 .. (Len(info.original) - Len(info.replacement)) |-> " "]
    ELSE info.replacement

\* the text read from left to right from offset from on: the characters
\* before the next match as they are, then that match replaced, and so on
\* for the matches rest
RECURSIVE LeftToRight(_, _, _, _, _)
LeftToRight(t, made, rest, from, preserve_structure) ==
    IF rest = {} THEN Slice(t, from, Len(t))
    ELSE LET i == CHOOSE i \in rest : \A j \in rest : made[i].start <= made[j].start
         IN  Slice(t, from, made[i].start)
             \o SubstituteOf(made[i], preserve_structure)
             \o LeftToRight(t, made, rest \ {i}, made[i].end, preserve_structure)

\* C21: when the matches of a text do not overlap, the text redact_text
\* returns is the original read from left to right with exactly the span of
\* each match replaced by that match's replacement, and every character
\* outside the spans unchanged and in the original order.
C21_DisjointMatchesReplacedInPlace ==
    (redaction # None /\ NonOverlapping(The(redaction).result.redactions_made))
    => The(redaction).result.redacted_text
         = LeftToRight(text, The(redaction).result.redactions_made,
                       DOMAIN The(redaction).result.redactions_made, 0,
                       The(redaction).preserve_structure)

\* a text with two matches apart from each other was redacted, and the
\* replacements changed its length
C21_Witness ==
    /\ redaction # None
    /\ Len(The(redaction).result.redactions_made) >= 2
    /\ NonOverlapping(The(redaction).result.redactions_made)
    /\ Len(The(redaction).result.redacted_text) # Len(text)
    /\ \E i \in DOMAIN The(redaction).result.redactions_made :
          The(redaction).result.redactions_made[i].start > 0

(***************************************************************************)
(* Substitution of matches that overlap (SpecRedactor)                     *)
(***************************************************************************)

\* two redactions share a character of the text
Overlap(a, b) == a.start < b.end /\ b.start < a.end

\* the text after the first n substitutions of redact_text's loop
RECURSIVE AppliedUpTo(_, _, _, _)
AppliedUpTo(t, made, n, preserve_structure) ==
    IF n = 0 THEN t
    ELSE Splice(AppliedUpTo(t, made, n - 1, preserve_structure),
                made[n].start, made[n].end, SubstituteOf(made[n], preserve_structure))

\* C22: overlapping matches of different patterns are not coalesced before
\* substitution: every match of every pattern has a redaction of its own at
\* the offsets it had in the original text; and of two redactions that
\* overlap, the one substituted second is applied at offsets that no longer
\* hold its matched value, which leaves the token of the first damaged in
\* the output.
C22_OverlapsSubstitutedAtStaleOffsets ==
    redaction # None =>
        LET made == The(redaction).result.redactions_made
            rt   == The(redaction).result.redacted_text
            p    == The(redaction).preserve_structure
        IN  /\ Len(made) = Len(CollectMatches(all_patterns, 1, Len(all_patterns), text))
            /\ \A k \in DOMAIN all_patterns :
                  \A n \in DOMAIN MatchesOf(all_patterns[k], text) :
                     \E i \in DOMAIN made :
                        /\ made[i].type = all_patterns[k].type
                        /\ made[i].start = MatchesOf(all_patterns[k], text)[n].start
                        /\ made[i].end = MatchesOf(all_patterns[k], text)[n].end
            /\ \A i, j \in DOMAIN made :
                  (i < j /\ Overlap(made[i], made[j]))
                  => /\ Slice(AppliedUpTo(text, made, j - 1, p), made[j].start, made[j].end)
                          # made[j].original
                     /\ ~Contains(rt, made[i].replacement)

\* the postal code 12345-6789 matched as a social security number and as a
\* zip code on the same span: the output holds the zip code token followed
\* by the tail of the overwritten first token
C22_Witness ==
    /\ redaction # None
    /\ text = <<"1", "2", "3", "4", "5", "-", "6", "7", "8", "9", " ">>
    /\ Len(The(redaction).result.redactions_made) = 2
    /\ Overlap(The(redaction).result.redactions_made[1],
               The(redaction).result.redactions_made[2])
    /\ The(redaction).result.redacted_text
         = <<"[", "Z", "I", "P", "_", "C", "O", "D", "E", "_",
             "3", "d", "7", "d", "e", "b", "3", "0", "]", "b", "3", "0", "]", " ">>

(***************************************************************************)
(* The audit trail of a redaction (SpecPipeline)                           *)
(***************************************************************************)

DigitOrder == <<"0", "1", "2", "3", "4", "5", "6", "7", "8", "9">>

\* the text t with every digit replaced by another digit: the same shape,
\* other values
OtherDigits(t) ==
    [i \in DOMAIN t |->
        IF \E k \in DOMAIN DigitOrder : DigitOrder[k] = t[i]
        THEN DigitOrder[(((CHOOSE k \in DOMAIN DigitOrder : DigitOrder[k] = t[i]) + 5) % 10) + 1]
        ELSE t[i]]

\* the matches of two texts have the same types at the same positions
SameTypesAndPositions(ms, ns) ==
    /\ Len(ms) = Len(ns)
    /\ \A i \in DOMAIN ms :
          /\ ms[i].type = ns[i].type
          /\ ms[i].start = ns[i].start
          /\ ms[i].end = ns[i].end

\* the patterns of the redactor a handler calls
PatternsOf(handler) ==
    IF handler = "extract_medical_information" THEN medical_all_patterns ELSE all_patterns

\* the audit log the handler's redactor builds for the text t
AuditOf(handler, t) == safe_for_ai_processing_with(PatternsOf(handler), t).phi_audit

\* C26: the audit trail of a redaction carries no original identifier text:
\* the audit log a handler gets from safe_for_ai_processing holds, for each
\* redaction, its type and its position only, next to the count and the set
\* of types; the line the pipeline logs about a redaction holds the count;
\* and a text whose matches have the same types at the same positions but
\* other values gives the same audit log and the same log line.
C26_AuditTrailHoldsNoOriginal ==
    (response # None /\ The(response).phi_audit # None)
    => LET handler   == The(response).handler
           audit     == The(The(response).phi_audit)
           twinAudit == AuditOf(handler, OtherDigits(text))
       IN  /\ DOMAIN audit = {"phi_detected", "redaction_count", "phi_types",
                              "redaction_summary"}
           /\ \A i \in DOMAIN audit.redaction_summary :
                 DOMAIN audit.redaction_summary[i] = {"type", "position"}
           /\ (/\ OtherDigits(text) # text
               /\ SameTypesAndPositions(
                      detect_phi_with(PatternsOf(handler), text),
                      detect_phi_with(PatternsOf(handler), OtherDigits(text))))
              => /\ audit = twinAudit
                 /\ handler = "analyze_document"
                    => \A i \in DOMAIN logged :
                          logged[i].event = "PHI detected and redacted"
                          => <<logged[i]>> = RedactionLogLines(twinAudit)

\* analyze_document redacted a text with a date of birth in it and logged the
\* redaction; the text with other digits has its matches at the same places
\* with other values
C26_Witness ==
    /\ response # None
    /\ The(response).handler = "analyze_document"
    /\ The(response).phi_audit # None
    /\ The(The(response).phi_audit).redaction_count >= 2
    /\ \E i \in DOMAIN logged : logged[i].event = "PHI detected and redacted"
    /\ SameTypesAndPositions(detect_phi(text), detect_phi(OtherDigits(text)))
    /\ \E i \in DOMAIN detect_phi(text) :
          detect_phi(text)[i].original # detect_phi(OtherDigits(text))[i].original
====
